---- MODULE Spec2Model ----
(***************************************************************************)
(* Model of the dynamic form builder: the schema held in the redux store   *)
(* (currentForm.fields), the field configuration panel that edits the      *)
(* selected field, the effects React runs after each commit (rule clean-up,*)
(* selected-field sync, derived-field clean-up), the validation rule       *)
(* engine and the derived value calculator.                                *)
(*                                                                         *)
(* JavaScript values are encoded so that TLC can compare them:             *)
(*   - an optional value (x | undefined) is a sequence of length 0 or 1;   *)
(*   - a string that is parsed is a sequence of one-character strings;     *)
(*   - a FieldValue is a record [k, s, n, l] tagged by k.                  *)
(***************************************************************************)
EXTENDS Integers, Sequences, FiniteSets, TLC

\* ------------------------------------------------------------------ bounds
MaxIds == 3          \* fields ever created in one editing session (nanoid never repeats)
MaxRules == 3        \* rules one field may hold in the rule editor
MaxOptions == 2      \* options one choice field may hold
MaxPasses == 3       \* clean-up passes recorded after one mutation
MaxValRules == 2     \* rules of a field handed to the validation engine
MaxParents == 3      \* fields a derived sum field may draw on
MaxForms == 2        \* forms ever created (nanoid never repeats)

\* ------------------------------------------------------- optional values
Undefined == << >>
Some(x) == << x >>
IsDefined(o) == Len(o) > 0
Get(o) == o[1]

\* Set of the elements of a sequence
Range(s) == { s[i] : i \in 1..Len(s) }

\* Array.prototype.filter on indices: keep s[i] for i in keep, in order
RECURSIVE FilterIdx(_, _, _)
FilterIdx(s, keep, i) ==
  IF i > Len(s) THEN << >>
  ELSE IF i \in keep THEN << s[i] >> \o FilterIdx(s, keep, i + 1)
       ELSE FilterIdx(s, keep, i + 1)

\* ------------------------------------------------------------ data model
FieldTypes == {"text", "number", "textarea", "select", "radio", "checkbox", "date"}
RuleTypes == {"notEmpty", "minLength", "maxLength", "email", "password"}
Formulas == {"sum", "age_from_birthdate"}
ChoiceTypes == {"select", "radio", "checkbox"}

\* utils/validation.ts getAvailableValidationRules
getAvailableValidationRules(fieldType) ==
  CASE fieldType \in {"text", "textarea"} ->
         << "notEmpty", "minLength", "maxLength", "email", "password" >>
    [] fieldType = "number" -> << "notEmpty", "minLength", "maxLength" >>
    [] OTHER -> << "notEmpty" >>

\* validationRules.tsx getDefaultMessage.  A message is kept as one token per
\* rule type; the wording that varies with the field type (checkbox, number)
\* is not modelled, no handler reads a message.
getDefaultMessage(type, fieldType) ==
  CASE type = "notEmpty" -> "required"
    [] type = "email" -> "bad-email"
    [] type = "password" -> "bad-password"
    [] type = "minLength" -> "below-min"
    [] type = "maxLength" -> "above-max"
    [] OTHER -> "invalid"

\* validationRules.tsx getRelevantRules: the filter predicate on one rule
RuleIsRelevant(rule, fieldType) ==
  /\ ~(rule.type = "email" /\ fieldType \notin {"text", "email", "textarea"})
  /\ ~(rule.type = "password" /\ fieldType \notin {"text", "password"})
  /\ ~(rule.type \in {"minLength", "maxLength"}
        /\ fieldType \in {"checkbox", "radio", "select"})

getRelevantRules(rules, fieldType) ==
  FilterIdx(rules, { i \in 1..Len(rules) : RuleIsRelevant(rules[i], fieldType) }, 1)

\* fieldConfigPanel.tsx handleFieldTypeChange: the cleanedRules filter
cleanedRules(rules, type) ==
  FilterIdx(rules,
    { i \in 1..Len(rules) :
        /\ ~(rules[i].type = "email" /\ type \notin {"text", "email", "textarea"})
        /\ ~(rules[i].type = "password" /\ type \notin {"text", "password"})
        /\ ~(rules[i].type \in {"minLength", "maxLength"}
              /\ type \in {"checkbox", "radio", "select"}) }, 1)

hasRequiredRule(rules) == \E i \in 1..Len(rules) : rules[i].type = "notEmpty"

\* FieldValue encodings used for defaultValue
StrVal(s) == [k |-> "str", s |-> s, n |-> 0, l |-> << >>]
NumVal(n) == [k |-> "num", s |-> << >>, n |-> n, l |-> << >>]
ListVal(l) == [k |-> "list", s |-> << >>, n |-> 0, l |-> l]
NullVal == [k |-> "null", s |-> << >>, n |-> 0, l |-> << >>]
EmptyStr == StrVal(<< >>)

\* ---------------------------------------------------- JavaScript strings
\* A string is a sequence of one-character strings.  No string of the model
\* has a digit next to ".", "e" or "+", nor the text "Infinity", so parseFloat
\* and parseInt read the same prefixes: optional blanks, an optional "-",
\* then digits.
Digits == << "0", "1", "2", "3", "4", "5", "6", "7", "8", "9" >>
IsDigit(c) == \E i \in 1..Len(Digits) : Digits[i] = c
DigitVal(c) == (CHOOSE i \in 1..Len(Digits) : Digits[i] = c) - 1
IsBlank(c) == c = " "

NaN == [nan |-> TRUE, n |-> 0]
Num(n) == [nan |-> FALSE, n |-> n]

RECURSIVE TrimLeft(_)
TrimLeft(s) == IF Len(s) > 0 /\ IsBlank(s[1]) THEN TrimLeft(Tail(s)) ELSE s
RECURSIVE TrimRight(_)
TrimRight(s) ==
  IF Len(s) > 0 /\ IsBlank(s[Len(s)]) THEN TrimRight(SubSeq(s, 1, Len(s) - 1)) ELSE s
\* String.prototype.trim
Trim(s) == TrimRight(TrimLeft(s))

\* The leading run of digits of s, as a number; acc carries the value so far
RECURSIVE DigitRun(_, _, _)
DigitRun(s, acc, seen) ==
  IF Len(s) > 0 /\ IsDigit(s[1])
  THEN DigitRun(Tail(s), acc * 10 + DigitVal(s[1]), TRUE)
  ELSE [seen |-> seen, n |-> acc, rest |-> s]

\* parseFloat / parseInt on a string: the longest numeric prefix, else NaN
ParsePrefix(str) ==
  LET t == TrimLeft(str)
      neg == Len(t) > 0 /\ t[1] = "-"
      r == DigitRun(IF neg THEN Tail(t) ELSE t, 0, FALSE)
  IN IF r.seen THEN Num(IF neg THEN 0 - r.n ELSE r.n) ELSE NaN

\* Number(string): the whole trimmed string must be a numeral; "" is 0
StringToNumber(str) ==
  LET t == Trim(str)
      neg == Len(t) > 0 /\ t[1] = "-"
      r == DigitRun(IF neg THEN Tail(t) ELSE t, 0, FALSE)
  IN IF Len(t) = 0 THEN Num(0)
     ELSE IF r.seen /\ Len(r.rest) = 0 THEN Num(IF neg THEN 0 - r.n ELSE r.n)
     ELSE NaN

\* value.toString() for an array of strings: the elements joined by ","
RECURSIVE JoinComma(_)
JoinComma(l) ==
  IF Len(l) = 0 THEN << >>
  ELSE IF Len(l) = 1 THEN l[1]
  ELSE l[1] \o << "," >> \o JoinComma(Tail(l))

\* Number.prototype.toString for an integer
RECURSIVE NatToStr(_)
NatToStr(n) ==
  IF n < 10 THEN << Digits[n + 1] >>
  ELSE NatToStr(n \div 10) \o << Digits[(n % 10) + 1] >>
NumToStr(n) == IF n < 0 THEN << "-" >> \o NatToStr(0 - n) ELSE NatToStr(n)

\* value?.toString() || ''   (null and undefined give '')
ToStr(v) ==
  CASE v.k = "str" -> v.s
    [] v.k = "num" -> NumToStr(v.n)
    [] v.k = "list" -> JoinComma(v.l)
    [] OTHER -> << >>

\* Number(value)
ToNumber(v) ==
  CASE v.k = "str" -> StringToNumber(v.s)
    [] v.k = "num" -> Num(v.n)
    [] v.k = "list" -> StringToNumber(JoinComma(v.l))
    [] OTHER -> Num(0)                  \* Number(null) is 0

\* JavaScript truthiness of a FieldValue
Truthy(v) ==
  CASE v.k = "str" -> Len(v.s) > 0
    [] v.k = "num" -> v.n # 0
    [] v.k = "list" -> TRUE
    [] OTHER -> FALSE

\* ===================================================== validation engine
Lowercase ==
  { "a", "b", "c", "d", "e", "f", "g", "h", "i", "j", "k", "l", "m",
    "n", "o", "p", "q", "r", "s", "t", "u", "v", "w", "x", "y", "z" }

\* /^[^\s@]+@[^\s@]+\.[^\s@]+$/ : one "@", no blank, text before it, and
\* after it a "." with text on both sides
emailRegex(str) ==
  /\ \A i \in 1..Len(str) : ~IsBlank(str[i])
  /\ Cardinality({ i \in 1..Len(str) : str[i] = "@" }) = 1
  /\ LET at == CHOOSE i \in 1..Len(str) : str[i] = "@"
     IN /\ at >= 2
        /\ \E dot \in (at + 2)..(Len(str) - 1) : str[dot] = "."

\* /^(?=.*\d)(?=.*[a-z]).{8,}$/
PasswordMinLen == 8
passwordRegex(str) ==
  /\ \E i \in 1..Len(str) : IsDigit(str[i])
  /\ \E i \in 1..Len(str) : str[i] \in Lowercase
  /\ Len(str) >= PasswordMinLen

\* A text returned as an error: a rule's message, or the text the
\* number-range variant builds from the rule's bound
MessageText(message) == [s |-> message, v |-> Undefined]
BoundText(prefix, value) == [s |-> prefix, v |-> value]
Null == << >>

\* rule.value || 0
BoundOf(rule) == IF IsDefined(rule.value) THEN Get(rule.value) ELSE 0

\* utils/validation.ts validateRule; range = TRUE is the variant "enhanced
\* with number range validation", which builds its own text for a number
\* bound.  The result is Null or Some(text).
validateRuleOf(rule, value, fieldType, range) ==
  LET str == ToStr(value)
      numValue == ToNumber(value)
      message == Some(MessageText(rule.message))
  IN CASE rule.type = "notEmpty" ->
            IF fieldType = "checkbox"
            THEN IF value.k = "list" /\ Len(value.l) > 0 THEN Null ELSE message
            ELSE IF Len(Trim(str)) = 0 THEN message ELSE Null
       [] rule.type = "minLength" ->
            IF fieldType = "number"
            THEN IF ~numValue.nan /\ numValue.n < BoundOf(rule)
                 THEN IF range
                      THEN Some(BoundText("Value must be at least", rule.value))
                      ELSE message
                 ELSE Null
            ELSE IF Len(str) < BoundOf(rule) THEN message ELSE Null
       [] rule.type = "maxLength" ->
            IF fieldType = "number"
            THEN IF ~numValue.nan /\ numValue.n > BoundOf(rule)
                 THEN IF range
                      THEN Some(BoundText("Value must not exceed", rule.value))
                      ELSE message
                 ELSE Null
            ELSE IF Len(str) > BoundOf(rule) THEN message ELSE Null
       [] rule.type = "email" ->
            IF Len(str) > 0 /\ ~emailRegex(str) THEN message ELSE Null
       [] rule.type = "password" ->
            IF Len(str) > 0 /\ ~passwordRegex(str) THEN message ELSE Null
       [] OTHER -> Null

validateRule(rule, value, fieldType) == validateRuleOf(rule, value, fieldType, FALSE)
validateRuleRange(rule, value, fieldType) == validateRuleOf(rule, value, fieldType, TRUE)

\* `if (error)`: null and the empty string are falsy
IsError(result) == IsDefined(result) /\ Get(result).s # ""

\* utils/validation.ts validateField: the first truthy result, in list order
RECURSIVE validateFieldFrom(_, _, _, _, _)
validateFieldFrom(rules, i, value, fieldType, range) ==
  IF i > Len(rules) THEN Null
  ELSE LET error == validateRuleOf(rules[i], value, fieldType, range)
       IN IF IsError(error) THEN error
          ELSE validateFieldFrom(rules, i + 1, value, fieldType, range)

validateField(field, value) ==
  validateFieldFrom(field.validationRules, 1, value, field.type, FALSE)
validateFieldRange(field, value) ==
  validateFieldFrom(field.validationRules, 1, value, field.type, TRUE)

\* ========================================================= derived values
\* utils/derivedFields.ts calculateSum: reduce over the parent ids; data[id]
\* is NullVal where the form has no value for id
RECURSIVE calculateSumFrom(_, _, _, _)
calculateSumFrom(parentFieldIds, i, data, sum) ==
  IF i > Len(parentFieldIds) THEN sum
  ELSE LET fieldId == parentFieldIds[i]
           value == IF fieldId \in DOMAIN data THEN data[fieldId] ELSE NullVal
           text == IF Len(ToStr(value)) = 0 THEN << "0" >> ELSE ToStr(value)
           numValue == IF value.k = "num" THEN Num(value.n) ELSE ParsePrefix(text)
       IN calculateSumFrom(parentFieldIds, i + 1, data,
                           sum + (IF numValue.nan THEN 0 ELSE numValue.n))

calculateSum(parentFieldIds, data) == calculateSumFrom(parentFieldIds, 1, data, 0)

\* A calendar date [y, m, d]
IsLeap(y) == (y % 4 = 0 /\ y % 100 # 0) \/ y % 400 = 0
DaysIn(y, m) ==
  IF m = 2 THEN (IF IsLeap(y) THEN 29 ELSE 28)
  ELSE IF m \in { 4, 6, 9, 11 } THEN 30 ELSE 31

\* new Date(str) for the text a date input yields, "YYYY-MM-DD": the date,
\* or Undefined (Invalid Date) for a text with no such shape.  The texts of
\* the model are of that shape, name a day of the calendar, or hold no digit.
ParseDate(str) ==
  LET digitsAt(S) == \A i \in S : IsDigit(str[i])
      num(a, b) == DigitRun(SubSeq(str, a, b), 0, FALSE).n
  IN IF /\ Len(str) = 10
        /\ str[5] = "-" /\ str[8] = "-"
        /\ digitsAt({ 1, 2, 3, 4, 6, 7, 9, 10 })
        /\ num(6, 7) \in 1..12
        /\ num(9, 10) \in 1..DaysIn(num(1, 4), num(6, 7))
     THEN Some([ y |-> num(1, 4), m |-> num(6, 7), d |-> num(9, 10) ])
     ELSE Undefined

\* The day before a date
DayBefore(date) ==
  IF date.d > 1 THEN [ date EXCEPT !.d = date.d - 1 ]
  ELSE IF date.m > 1
       THEN [ y |-> date.y, m |-> date.m - 1, d |-> DaysIn(date.y, date.m - 1) ]
       ELSE [ y |-> date.y - 1, m |-> 12, d |-> 31 ]

\* getFullYear/getMonth/getDate of a date-only text: the text is read as
\* midnight UTC, which west of Greenwich is still the previous local day
LocalDate(date, west) == IF west THEN DayBefore(date) ELSE date

\* utils/derivedFields.ts calculateAge; clock = [today, west] is what
\* new Date() and the time zone of the browser supply
calculateAge(birthdateFieldId, data, clock) ==
  LET value == IF birthdateFieldId \in DOMAIN data THEN data[birthdateFieldId]
               ELSE NullVal
      birthdate == ToStr(value)
      parsed == ParseDate(birthdate)
  IN IF Len(birthdate) = 0 THEN 0
     ELSE IF ~IsDefined(parsed) THEN 0
     ELSE LET birthDate == LocalDate(Get(parsed), clock.west)
              today == clock.today
              age == today.y - birthDate.y
              monthDiff == today.m - birthDate.m
              aged == IF monthDiff < 0 \/ (monthDiff = 0 /\ today.d < birthDate.d)
                      THEN age - 1 ELSE age
          IN IF aged < 0 THEN 0 ELSE aged

\* utils/derivedFields.ts calculateDerivedValue
calculateDerivedValue(field, data, clock) ==
  IF ~field.isDerived \/ ~IsDefined(field.derivedConfig)
  THEN IF Truthy(field.defaultValue) THEN field.defaultValue ELSE EmptyStr
  ELSE LET config == Get(field.derivedConfig)
       IN CASE config.formula = "sum" ->
                 NumVal(calculateSum(config.parentFieldIds, data))
            [] config.formula = "age_from_birthdate" ->
                 NumVal(calculateAge(IF Len(config.parentFieldIds) > 0
                                     THEN config.parentFieldIds[1] ELSE 0,
                                     data, clock))
            [] OTHER -> EmptyStr

\* ================================================================ editor
VARIABLES
  fields,             \* store: currentForm.fields, in display order
  nextId,             \* the next fresh field id (nanoid)
  selectedField,      \* CreatePage state: the field shown in the panel, or Undefined
  originalField,      \* panel state: the snapshot Cancel writes back
  hasUnsavedChanges,  \* panel state: the unsaved flag
  showUnsavedDialog,  \* panel state: the "unsaved changes" dialog is up
  phase,              \* "idle", or "effects" while a commit's effects are pending
  lastOp,             \* history: the last handler that dispatched to the store
                      \* since the panel was opened or saved, [name, id]
  passes,             \* history: the clean-up passes since lastOp that dispatched
                      \* updates, each followed by what the next pass dispatched
  valField,           \* validation: the field (type and rules) under validation
  valValue,           \* validation: the value entered for it
  valResult,          \* validation: Undefined, or Some([variant, error])
  sumField,           \* derived value: the derived field
  formData,           \* derived value: the form's values by field id
  sumResult,          \* derived value: Undefined, or Some(value computed)
  now,                \* the browser's clock: the local day and the side of Greenwich
  route,              \* the page shown: "create" or "myforms"
  currentForm,        \* store: Undefined, or Some([id, name]) of currentForm
  nextFormId,         \* the next fresh form id (nanoid)
  formName,           \* CreatePage state: the text of the "Form Name" input
  showSaveDialog,     \* CreatePage state: the "Save Form" dialog is up
  isLoading,          \* CreatePage state: a save is in progress
  saveTimer,          \* the one-second timer of handleSaveForm is pending
  savedForms,         \* store: savedForms.forms
  storage,            \* localStorage: the text under formBuilder_savedForms
  forms,              \* MyFormsPage state: the forms it lists
  searchParams,       \* the id of the page address: Undefined, or Some(form id)
  formNotFound,       \* PreviewPage state: the form asked for is not there
  raised,             \* an exception left a handler or an effect uncaught
  storageKind,        \* localStorage: what the text under the key parses to
  deleted,            \* history: the ids of the forms deleted on My Forms
  validationErrors,   \* PreviewPage state: field id -> Undefined or the message
  showValidation      \* PreviewPage state: validation has run

editorVars ==
  << fields, nextId, selectedField, originalField, hasUnsavedChanges,
     showUnsavedDialog, phase, lastOp, passes >>

valVars == << valField, valValue, valResult >>
sumVars == << sumField, formData, sumResult, now >>
loadVars == << searchParams, formNotFound, raised, storageKind, deleted >>
saveVars ==
  << route, currentForm, nextFormId, formName, showSaveDialog, isLoading,
     saveTimer, savedForms, storage, forms, loadVars >>
\* What the handlers of the field editor leave alone
previewVars == << validationErrors, showValidation >>
pureVars == << valVars, sumVars, saveVars, previewVars >>
vars == << editorVars, pureVars >>

Op(name, id) == [name |-> name, id |-> id]
\* No handler has dispatched since the panel was last opened or saved
NoOp == Op("none", 0)

\* createPage.tsx handleAddField: the field a click on "Add Field" creates
NewField(id) ==
  [ id |-> id, type |-> "text", required |-> FALSE, defaultValue |-> EmptyStr,
    validationRules |-> << >>, options |-> Undefined, isDerived |-> FALSE,
    derivedConfig |-> Undefined ]

FieldIds(flds) == { flds[i].id : i \in 1..Len(flds) }
FieldById(flds, id) == flds[CHOOSE i \in 1..Len(flds) : flds[i].id = id]

\* { ...field, ...partial }
Merge(field, partial) ==
  [ key \in DOMAIN field |->
      IF key \in DOMAIN partial THEN partial[key] ELSE field[key] ]

\* formBuilderSlice.updateField: merge the partial into the field with that id
updateField(flds, fieldId, partial) ==
  [ i \in 1..Len(flds) |->
      IF flds[i].id = fieldId THEN Merge(flds[i], partial) ELSE flds[i] ]

\* formBuilderSlice.deleteField
deleteField(flds, fieldId) ==
  FilterIdx(flds, { i \in 1..Len(flds) : flds[i].id # fieldId }, 1)

\* --------------------------------------------- derived-field clean-up pass
\* Variant: the parent ids are kept whether or not they name a field
validParentIdsUnfiltered(field, flds) ==
  Get(field.derivedConfig).parentFieldIds

\* createPage.tsx clean-up effect: the parent ids that still name a field
validParentIds(field, flds) ==
  LET parents == Get(field.derivedConfig).parentFieldIds
  IN FilterIdx(parents, { i \in 1..Len(parents) : parents[i] \in FieldIds(flds) }, 1)

\* Variant: a prune writes the parent list back as it was
CleanupUpdateKeepParents(field, flds) ==
  IF field.isDerived /\ IsDefined(field.derivedConfig)
  THEN LET valid == validParentIds(field, flds)
           config == Get(field.derivedConfig)
       IN IF Len(valid) = 0
          THEN Some([isDerived |-> FALSE, derivedConfig |-> Undefined])
          ELSE IF Len(valid) # Len(config.parentFieldIds)
          THEN Some([derivedConfig |->
                       Some([formula |-> config.formula,
                             parentFieldIds |-> config.parentFieldIds])])
          ELSE Undefined
  ELSE Undefined

\* Variant: a derived field that never had a parent is left alone
CleanupUpdateKeepUnconfigured(field, flds) ==
  IF field.isDerived /\ IsDefined(field.derivedConfig)
  THEN LET valid == validParentIds(field, flds)
           config == Get(field.derivedConfig)
       IN IF Len(config.parentFieldIds) = 0
          THEN Undefined
          ELSE IF Len(valid) = 0
          THEN Some([isDerived |-> FALSE, derivedConfig |-> Undefined])
          ELSE IF Len(valid) # Len(config.parentFieldIds)
          THEN Some([derivedConfig |->
                       Some([formula |-> config.formula, parentFieldIds |-> valid])])
          ELSE Undefined
  ELSE Undefined

\* Variant: a field whose parents are all valid gets its parent list rewritten
\* back to front
CleanupUpdateRewrite(field, flds) ==
  IF field.isDerived /\ IsDefined(field.derivedConfig)
  THEN LET valid == validParentIds(field, flds)
           config == Get(field.derivedConfig)
       IN IF Len(valid) = 0
          THEN Some([isDerived |-> FALSE, derivedConfig |-> Undefined])
          ELSE Some([derivedConfig |->
                       Some([formula |-> config.formula,
                             parentFieldIds |->
                               [ k \in 1..Len(valid) |-> valid[Len(valid) + 1 - k] ]])])
  ELSE Undefined

\* createPage.tsx clean-up effect: the update pushed for one field, if any
CleanupUpdate(field, flds) ==
  IF field.isDerived /\ IsDefined(field.derivedConfig)
  THEN LET valid == validParentIds(field, flds)
           config == Get(field.derivedConfig)
       IN IF Len(valid) = 0
          THEN Some([isDerived |-> FALSE, derivedConfig |-> Undefined])
          ELSE IF Len(valid) # Len(config.parentFieldIds)
          THEN Some([derivedConfig |->
                       Some([formula |-> config.formula, parentFieldIds |-> valid])])
          ELSE Undefined
  ELSE Undefined

\* The ids the clean-up pass computed from flds dispatches an update for
FieldsToUpdate(flds) ==
  { flds[i].id : i \in { j \in 1..Len(flds) : IsDefined(CleanupUpdate(flds[j], flds)) } }

\* All updates of one pass, computed from the rendered fields `seen` and
\* dispatched one by one into the store `flds`
ApplyCleanup(flds, seen) ==
  [ i \in 1..Len(flds) |->
      IF flds[i].id \in FieldsToUpdate(seen)
      THEN Merge(flds[i], Get(CleanupUpdate(FieldById(seen, flds[i].id), seen)))
      ELSE flds[i] ]

\* What a pass dispatched, for the history: [id, kind, formula] per update
PassRecord(seen) ==
  { [ id |-> f.id,
      kind |-> IF "isDerived" \in DOMAIN Get(CleanupUpdate(f, seen))
               THEN "demote" ELSE "prune",
      formula |-> Get(f.derivedConfig).formula ] :
    f \in { g \in Range(seen) : g.id \in FieldsToUpdate(seen) } }

\* ------------------------------------------------------- the panel's view
\* The panel edits the `field` prop, which is CreatePage's selectedField
Fld == Get(selectedField)
\* The page takes input when no effect is pending and the modal dialog is down
PageIdle ==
  /\ phase = "idle"
  /\ ~showUnsavedDialog
  /\ route = "create"
  /\ IsDefined(currentForm)
  /\ ~showSaveDialog
  /\ ~isLoading
PanelOpen == PageIdle /\ IsDefined(selectedField)
needsOptions(field) == field.type \in ChoiceTypes

\* createPage.tsx availableFields, filtered again by the panel: the siblings
availableFields(flds, field) ==
  FilterIdx(flds, { i \in 1..Len(flds) : flds[i].id # field.id }, 1)

\* fieldConfigPanel.tsx handleUpdate -> createPage.tsx handleUpdateField
HandleUpdate(updates, op) ==
  /\ fields' = updateField(fields, Fld.id, updates)
  /\ hasUnsavedChanges' = TRUE
  /\ phase' = "effects"
  /\ lastOp' = op
  /\ passes' = << >>
  /\ UNCHANGED << nextId, selectedField, originalField, showUnsavedDialog >>
  /\ UNCHANGED pureVars

\* Variant: the notEmpty rule goes to the end of the list
RequiredToggleUpdateAppend(field, checked) ==
  LET currentRules == field.validationRules
      newRules ==
        IF checked
        THEN IF hasRequiredRule(currentRules) THEN currentRules
             ELSE Append(currentRules,
                         [ type |-> "notEmpty", value |-> Undefined,
                           message |-> "required" ])
        ELSE FilterIdx(currentRules,
               { i \in 1..Len(currentRules) : currentRules[i].type # "notEmpty" }, 1)
  IN [required |-> checked, validationRules |-> newRules]

\* fieldConfigPanel.tsx handleRequiredToggle: the partial it dispatches
RequiredToggleUpdate(field, checked) ==
  LET currentRules == field.validationRules
      newRules ==
        IF checked
        THEN IF hasRequiredRule(currentRules) THEN currentRules
             ELSE << [ type |-> "notEmpty", value |-> Undefined,
                       message |-> "required" ] >>
                  \o currentRules
        ELSE FilterIdx(currentRules,
               { i \in 1..Len(currentRules) : currentRules[i].type # "notEmpty" }, 1)
  IN [required |-> checked, validationRules |-> newRules]

\* Variant: the rule list is stored without recomputing `required`
RulesChangeUpdateNoSync(rules) ==
  [validationRules |-> rules]

\* fieldConfigPanel.tsx handleValidationRulesChange: the partial it dispatches
RulesChangeUpdate(rules) ==
  [validationRules |-> rules, required |-> hasRequiredRule(rules)]

\* Variant: every allowed type is offered, used or not
availableForAddAll(rules, fieldType) ==
  getAvailableValidationRules(fieldType)

\* validationRules.tsx availableForAdd: allowed types not yet used, in table order
availableForAdd(rules, fieldType) ==
  LET table == getAvailableValidationRules(fieldType)
  IN FilterIdx(table,
       { i \in 1..Len(table) : \A j \in 1..Len(rules) : rules[j].type # table[i] }, 1)

\* validationRules.tsx addRule / handleRuleTypeChange: a rule of a given type
\* Variant: a new rule carries no bound
MakeRuleNoValue(ruleType, fieldType) ==
  [ type |-> ruleType, value |-> Undefined,
    message |-> getDefaultMessage(ruleType, fieldType) ]

MakeRule(ruleType, fieldType) ==
  [ type |-> ruleType,
    value |-> IF ruleType \in {"minLength", "maxLength"} THEN Some(1) ELSE Undefined,
    message |-> getDefaultMessage(ruleType, fieldType) ]

\* The "Required Field" switch
handleRequiredToggle ==
  /\ PanelOpen
  /\ Fld.required \/ hasRequiredRule(Fld.validationRules)
       \/ Len(Fld.validationRules) < MaxRules
  /\ HandleUpdate(RequiredToggleUpdate(Fld, ~Fld.required),
                  Op("handleRequiredToggle", Fld.id))

\* The "Add Rule" button (disabled when every allowed type is used)
addRule ==
  /\ PanelOpen
  /\ Len(Fld.validationRules) < MaxRules
  /\ Len(availableForAdd(Fld.validationRules, Fld.type)) > 0
  /\ LET ruleType == availableForAdd(Fld.validationRules, Fld.type)[1]
     IN HandleUpdate(
          RulesChangeUpdate(Append(Fld.validationRules, MakeRule(ruleType, Fld.type))),
          Op("addRule", Fld.id))

\* The delete icon of rule `index` (disabled on notEmpty while required is on).
\* Deleting a notEmpty rule first calls onRequiredChange(false), then onChange.
deleteRule ==
  /\ PanelOpen
  /\ \E index \in 1..Len(Fld.validationRules) :
       LET rules == Fld.validationRules
           ruleToDelete == rules[index]
           newRules == FilterIdx(rules, (1..Len(rules)) \ {index}, 1)
           first == IF ruleToDelete.type = "notEmpty"
                    THEN updateField(fields, Fld.id, RequiredToggleUpdate(Fld, FALSE))
                    ELSE fields
       IN /\ ~(ruleToDelete.type = "notEmpty" /\ Fld.required)
          /\ fields' = updateField(first, Fld.id, RulesChangeUpdate(newRules))
          /\ hasUnsavedChanges' = TRUE
          /\ phase' = "effects"
          /\ lastOp' = Op("deleteRule", Fld.id)
          /\ passes' = << >>
          /\ UNCHANGED << nextId, selectedField, originalField, showUnsavedDialog >>
          /\ UNCHANGED pureVars

\* The "Rule Type" select of rule `index`: its menu offers the unused types
handleRuleTypeChange ==
  /\ PanelOpen
  /\ \E index \in 1..Len(Fld.validationRules) :
       \E newType \in Range(availableForAdd(Fld.validationRules, Fld.type)) :
         LET rules == Fld.validationRules
             updated == MakeRule(newType, Fld.type)
         IN HandleUpdate(
              RulesChangeUpdate([rules EXCEPT ![index] = updated]),
              Op("handleRuleTypeChange", Fld.id))

\* What the user can type into a rule's bound input
ValueInputs == { << >>, << "0" >>, << "2" >>, << "-", "1" >> }

\* The bound input of a minLength/maxLength rule
handleValueChange ==
  /\ PanelOpen
  /\ \E index \in 1..Len(Fld.validationRules) : \E value \in ValueInputs :
       LET rules == Fld.validationRules
           numValue == ParsePrefix(value)
       IN /\ rules[index].type \in {"minLength", "maxLength"}
          /\ value = << >> \/ (~numValue.nan /\ numValue.n >= 1)
          /\ HandleUpdate(
               RulesChangeUpdate(
                 [rules EXCEPT ![index].value =
                    IF value = << >> THEN Some(1) ELSE Some(numValue.n)]),
               Op("handleValueChange", Fld.id))

\* fieldConfigPanel.tsx handleFieldTypeChange: the defaultValue switch
TypeChangeDefault(field, type) ==
  IF field.type = "date" /\ type # "date" THEN Some(EmptyStr)
  ELSE IF field.type = "checkbox" /\ type # "checkbox" THEN Some(EmptyStr)
  ELSE IF field.type # "checkbox" /\ type = "checkbox" THEN Some(ListVal(<< >>))
  ELSE IF type = "number"
  THEN IF Truthy(field.defaultValue) /\ ~ToNumber(field.defaultValue).nan
       THEN Some(NumVal(ToNumber(field.defaultValue).n))
       ELSE Some(EmptyStr)
  ELSE Undefined

\* Variant: a type change leaves the derived flag and configuration alone
TypeChangeUpdateKeepDerived(field, type) ==
  LET currentRules == field.validationRules
      cleaned == cleanedRules(currentRules, type)
      base == [ type |-> type,
                options |-> IF type \notin ChoiceTypes THEN Undefined
                            ELSE IF IsDefined(field.options) THEN field.options
                            ELSE Some(<< >>),
                isDerived |-> field.isDerived,
                derivedConfig |-> field.derivedConfig,
                defaultValue |-> IF IsDefined(TypeChangeDefault(field, type))
                                 THEN Get(TypeChangeDefault(field, type))
                                 ELSE field.defaultValue,
                validationRules |-> currentRules,
                required |-> field.required ]
  IN IF Len(cleaned) # Len(currentRules)
     THEN [base EXCEPT !.validationRules = cleaned,
                       !.required = hasRequiredRule(cleaned)]
     ELSE base

\* fieldConfigPanel.tsx handleFieldTypeChange: the partial it dispatches
TypeChangeUpdate(field, type) ==
  LET currentRules == field.validationRules
      cleaned == cleanedRules(currentRules, type)
      base == [ type |-> type,
                options |-> IF type \notin ChoiceTypes THEN Undefined
                            ELSE IF IsDefined(field.options) THEN field.options
                            ELSE Some(<< >>),
                isDerived |-> IF type # "number" THEN FALSE ELSE field.isDerived,
                derivedConfig |-> IF type # "number" THEN Undefined
                                  ELSE field.derivedConfig,
                defaultValue |-> IF IsDefined(TypeChangeDefault(field, type))
                                 THEN Get(TypeChangeDefault(field, type))
                                 ELSE field.defaultValue,
                validationRules |-> currentRules,
                required |-> field.required ]
  IN IF Len(cleaned) # Len(currentRules)
     THEN [base EXCEPT !.validationRules = cleaned,
                       !.required = hasRequiredRule(cleaned)]
     ELSE base

\* The "Field Type" select
handleFieldTypeChange ==
  /\ PanelOpen
  /\ \E type \in FieldTypes \ {Fld.type} :
       HandleUpdate(TypeChangeUpdate(Fld, type),
                    Op("handleFieldTypeChange", Fld.id))

\* What the user can type into the default value input
DefaultInputs == { << >>, << "7" >>, << "x" >> }

\* The "Default Value" input (shown for the types without options)
handleDefaultValueChange ==
  /\ PanelOpen
  /\ ~needsOptions(Fld)
  /\ \E value \in DefaultInputs :
       LET numValue == StringToNumber(value)
           processedValue ==
             IF Fld.type = "number"
             THEN IF value = << >> \/ numValue.nan THEN EmptyStr ELSE NumVal(numValue.n)
             ELSE StrVal(value)
       IN HandleUpdate([defaultValue |-> processedValue],
                       Op("handleDefaultValueChange", Fld.id))

\* ----------------------------------------------------------------- options
\* What the user can type as an option text
OptionInputs == { << "a" >>, << "b" >>, << " " >> }

Options(field) == IF IsDefined(field.options) THEN Get(field.options) ELSE << >>

\* fieldConfigPanel.tsx handleOptionsChange: blank options are dropped
OptionsChangeUpdate(options) ==
  [options |->
     Some(FilterIdx(options, { i \in 1..Len(options) : Len(Trim(options[i])) > 0 }, 1))]

\* The two dispatches of an option edit: the options, then maybe the default
OptionEdit(options, newDefault, op) ==
  LET first == updateField(fields, Fld.id, OptionsChangeUpdate(options))
  IN /\ fields' = IF IsDefined(newDefault)
                  THEN updateField(first, Fld.id, [defaultValue |-> Get(newDefault)])
                  ELSE first
     /\ hasUnsavedChanges' = TRUE
     /\ phase' = "effects"
     /\ lastOp' = op
     /\ passes' = << >>
     /\ UNCHANGED << nextId, selectedField, originalField, showUnsavedDialog >>
     /\ UNCHANGED pureVars

\* defaultValue as the FieldOptions component reads it
CheckboxDefaults(field) ==
  IF field.defaultValue.k = "list" THEN field.defaultValue.l ELSE << >>

\* fieldOptions.tsx addOption
addOption ==
  /\ PanelOpen /\ needsOptions(Fld)
  /\ Len(Options(Fld)) < MaxOptions
  /\ \E newOption \in OptionInputs :
       /\ Len(Trim(newOption)) > 0
       /\ OptionEdit(Append(Options(Fld), Trim(newOption)), Undefined,
                     Op("addOption", Fld.id))

\* fieldOptions.tsx updateOption: retype option `index`
updateOption ==
  /\ PanelOpen /\ needsOptions(Fld)
  /\ \E index \in 1..Len(Options(Fld)) : \E value \in OptionInputs :
       LET options == Options(Fld)
           oldValue == options[index]
           defaults == CheckboxDefaults(Fld)
           newDefault ==
             IF Fld.type = "checkbox"
             THEN IF oldValue \in Range(defaults)
                  THEN Some(ListVal([ i \in 1..Len(defaults) |->
                         IF defaults[i] = oldValue THEN value ELSE defaults[i] ]))
                  ELSE Undefined
             ELSE IF Fld.defaultValue = StrVal(oldValue) THEN Some(StrVal(value))
                  ELSE Undefined
       IN /\ value # oldValue
          /\ OptionEdit([options EXCEPT ![index] = value], newDefault,
                        Op("updateOption", Fld.id))

\* fieldOptions.tsx deleteOption
deleteOption ==
  /\ PanelOpen /\ needsOptions(Fld)
  /\ \E index \in 1..Len(Options(Fld)) :
       LET options == Options(Fld)
           optionToDelete == options[index]
           defaults == CheckboxDefaults(Fld)
           newDefault ==
             IF Fld.type = "checkbox"
             THEN Some(ListVal(FilterIdx(defaults,
                    { i \in 1..Len(defaults) : defaults[i] # optionToDelete }, 1)))
             ELSE IF Fld.defaultValue = StrVal(optionToDelete) THEN Some(EmptyStr)
                  ELSE Undefined
       IN OptionEdit(FilterIdx(options, (1..Len(options)) \ {index}, 1), newDefault,
                     Op("deleteOption", Fld.id))

\* fieldOptions.tsx handleDefaultValueSelectChange / handleCheckboxDefaultChange
handleDefaultValueForOptionsChange ==
  /\ PanelOpen /\ needsOptions(Fld)
  /\ Len(Options(Fld)) > 0
  /\ \E option \in Range(Options(Fld)) \cup {<< >>} :
       LET defaults == CheckboxDefaults(Fld)
           value ==
             IF Fld.type = "checkbox"
             THEN IF option \in Range(defaults)
                  THEN ListVal(FilterIdx(defaults,
                         { i \in 1..Len(defaults) : defaults[i] # option }, 1))
                  ELSE ListVal(Append(defaults, option))
             ELSE StrVal(option)
       IN /\ Fld.type = "checkbox" =>
               /\ option # << >>
               /\ option \in Range(defaults) \/ Len(defaults) < MaxOptions
          /\ Fld.type # "checkbox" => value # Fld.defaultValue
          /\ HandleUpdate([defaultValue |-> value],
                          Op("handleDefaultValueForOptionsChange", Fld.id))

\* ---------------------------------------------------------- derived config
\* derivedFieldConfig.tsx getCompatibleFields
getCompatibleFields(formula, available) ==
  CASE formula = "sum" ->
         FilterIdx(available,
           { i \in 1..Len(available) :
               available[i].type = "number" /\ ~available[i].isDerived }, 1)
    [] formula = "age_from_birthdate" ->
         FilterIdx(available,
           { i \in 1..Len(available) : available[i].type = "date" }, 1)
    [] OTHER -> << >>

hasNumberFields(available) ==
  \E i \in 1..Len(available) : available[i].type = "number" /\ ~available[i].isDerived
hasDateFields(available) ==
  \E i \in 1..Len(available) : available[i].type = "date"

\* The derived section renders its switch only for a number field with a
\* possible parent among the siblings
DerivedSectionShown ==
  /\ PanelOpen
  /\ Fld.type = "number"
  /\ hasNumberFields(availableFields(fields, Fld))
       \/ hasDateFields(availableFields(fields, Fld))

\* fieldConfigPanel.tsx handleDerivedFieldChange
DerivedChangeUpdate(isDerived, derivedConfig) ==
  [isDerived |-> isDerived, derivedConfig |-> derivedConfig]

\* derivedFieldConfig.tsx handleDerivedToggle: the switch
handleDerivedToggle ==
  /\ DerivedSectionShown
  /\ LET checked == ~Fld.isDerived
         defaultFormula == IF hasDateFields(availableFields(fields, Fld))
                           THEN "age_from_birthdate" ELSE "sum"
     IN HandleUpdate(
          IF checked
          THEN DerivedChangeUpdate(TRUE,
                 Some([formula |-> defaultFormula, parentFieldIds |-> << >>]))
          ELSE DerivedChangeUpdate(FALSE, Undefined),
          Op("handleDerivedToggle", Fld.id))

\* derivedFieldConfig.tsx updateConfig: the new config
updateConfig(config, formula, parentFieldIds) ==
  [ formula |-> formula,
    parentFieldIds |-> IF formula # config.formula THEN << >> ELSE parentFieldIds ]

\* derivedFieldConfig.tsx handleFormulaChange: the "Formula" select, whose
\* menu offers a formula only when a field of its parent type exists
handleFormulaChange ==
  /\ DerivedSectionShown
  /\ Fld.isDerived /\ IsDefined(Fld.derivedConfig)
  /\ \E formula \in Formulas \ {Get(Fld.derivedConfig).formula} :
       LET config == Get(Fld.derivedConfig)
       IN /\ formula = "sum" => hasNumberFields(availableFields(fields, Fld))
          /\ formula = "age_from_birthdate" => hasDateFields(availableFields(fields, Fld))
          /\ HandleUpdate(
               DerivedChangeUpdate(TRUE,
                 Some(updateConfig(config, formula, config.parentFieldIds))),
               Op("handleFormulaChange", Fld.id))

\* derivedFieldConfig.tsx handleParentFieldsChange: the "Parent Fields" select.
\* A multiple select toggles the clicked id in the list; a single select
\* replaces the list by the clicked id.
handleParentFieldsChange ==
  /\ DerivedSectionShown
  /\ Fld.isDerived /\ IsDefined(Fld.derivedConfig)
  /\ LET config == Get(Fld.derivedConfig)
         parents == config.parentFieldIds
         compatible == getCompatibleFields(config.formula, availableFields(fields, Fld))
     IN \E i \in 1..Len(compatible) :
          LET id == compatible[i].id
              newValue ==
                IF config.formula = "sum"
                THEN IF id \in Range(parents)
                     THEN FilterIdx(parents,
                            { j \in 1..Len(parents) : parents[j] # id }, 1)
                     ELSE Append(parents, id)
                ELSE << id >>
          IN /\ config.formula # "sum" => (Len(parents) = 0 \/ parents[1] # id)
             /\ HandleUpdate(
                  DerivedChangeUpdate(TRUE,
                    Some(updateConfig(config, config.formula, newValue))),
                  Op("handleParentFieldsChange", Fld.id))

\* ------------------------------------------------------- field list actions
\* createPage.tsx handleAddField: the new field is appended and opened
handleAddField ==
  /\ PageIdle
  /\ nextId <= MaxIds
  /\ fields' = Append(fields, NewField(nextId))
  /\ nextId' = nextId + 1
  /\ selectedField' = Some(NewField(nextId))
  /\ originalField' = Some(NewField(nextId))
  /\ hasUnsavedChanges' = FALSE
  /\ showUnsavedDialog' = FALSE
  /\ phase' = "effects"
  /\ lastOp' = Op("handleAddField", nextId)
  /\ passes' = << >>
  /\ UNCHANGED pureVars

\* createPage.tsx handleEditField: the edit icon of another field's card
handleEditField ==
  /\ PageIdle
  /\ \E id \in FieldIds(fields) :
       /\ ~(IsDefined(selectedField) /\ Fld.id = id)
       /\ selectedField' = Some(FieldById(fields, id))
       /\ originalField' = Some(FieldById(fields, id))
       /\ hasUnsavedChanges' = FALSE
       /\ showUnsavedDialog' = FALSE
       /\ phase' = "effects"
       /\ lastOp' = NoOp
       /\ passes' = << >>
       /\ UNCHANGED << fields, nextId >>
       /\ UNCHANGED pureVars

\* createPage.tsx handleDeleteField: the delete icon of a field's card
handleDeleteField ==
  /\ PageIdle
  /\ \E id \in FieldIds(fields) :
       LET closes == IsDefined(selectedField) /\ Fld.id = id
       IN /\ fields' = deleteField(fields, id)
          /\ selectedField' = IF closes THEN Undefined ELSE selectedField
          /\ originalField' = IF closes THEN Undefined ELSE originalField
          /\ hasUnsavedChanges' = IF closes THEN FALSE ELSE hasUnsavedChanges
          /\ showUnsavedDialog' = IF closes THEN FALSE ELSE showUnsavedDialog
          /\ phase' = "effects"
          /\ lastOp' = Op("handleDeleteField", id)
          /\ passes' = << >>
          /\ UNCHANGED nextId
          /\ UNCHANGED pureVars

\* Array.prototype.splice(start, 1) on a 0-based start inside the array
SpliceOut(s, start) ==
  SubSeq(s, 1, start) \o SubSeq(s, start + 2, Len(s))

\* Array.prototype.splice(start, 0, item): start is clamped to the length
SpliceIn(s, start, item) ==
  LET at == IF start > Len(s) THEN Len(s) ELSE start
  IN SubSeq(s, 1, at) \o << item >> \o SubSeq(s, at + 1, Len(s))

\* Variant: the dragged field is inserted without being taken out first
DropFieldsNoRemove(flds, draggedIndex, dropIndex) ==
  LET insertIndex == IF draggedIndex < dropIndex THEN dropIndex - 1 ELSE dropIndex
  IN SpliceIn(flds, insertIndex, flds[draggedIndex + 1])

\* createPage.tsx handleDrop: the list it dispatches to reorderFields
DropFields(flds, draggedIndex, dropIndex) ==
  LET draggedField == flds[draggedIndex + 1]
      removed == SpliceOut(flds, draggedIndex)
      insertIndex == IF draggedIndex < dropIndex THEN dropIndex - 1 ELSE dropIndex
  IN SpliceIn(removed, insertIndex, draggedField)

\* createPage.tsx handleDragStart, handleDrop, handleDragEnd: one drag of the
\* card at draggedIndex onto the card at dropIndex.  draggedItem is set when
\* the drag starts and cleared when it ends; reorderFields stores the list.
handleDrop ==
  /\ PageIdle
  /\ \E draggedIndex, dropIndex \in 0..(Len(fields) - 1) :
       /\ draggedIndex # dropIndex
       /\ fields' = DropFields(fields, draggedIndex, dropIndex)
       /\ phase' = "effects"
       /\ lastOp' = Op("handleDrop", fields[draggedIndex + 1].id)
       /\ passes' = << >>
       /\ UNCHANGED << nextId, selectedField, originalField, hasUnsavedChanges,
                       showUnsavedDialog >>
       /\ UNCHANGED pureVars

\* fieldConfigPanel.tsx isSaveDisabled (the label is not modelled)
isSaveDisabled(field) ==
  LET numValue == ToNumber(field.defaultValue)
      rules == field.validationRules
      bound(i) == IF IsDefined(rules[i].value) THEN Get(rules[i].value) ELSE 0
      firstOf(t) == CHOOSE i \in 1..Len(rules) :
                      /\ rules[i].type = t
                      /\ \A j \in 1..(i - 1) : rules[j].type # t
      has(t) == \E i \in 1..Len(rules) : rules[i].type = t
      defaultError ==
        /\ field.type = "number"
        /\ field.defaultValue # EmptyStr
        /\ \/ numValue.nan
           \/ has("minLength") /\ numValue.n < bound(firstOf("minLength"))
           \/ has("maxLength") /\ numValue.n > bound(firstOf("maxLength"))
  IN \/ needsOptions(field) /\ Len(Options(field)) = 0
     \/ defaultError

\* fieldConfigPanel.tsx handleSave: "Save Changes" keeps the store and closes
handleSave ==
  /\ PanelOpen
  /\ ~isSaveDisabled(Fld)
  /\ selectedField' = Undefined
  /\ originalField' = Undefined
  /\ hasUnsavedChanges' = FALSE
  /\ showUnsavedDialog' = FALSE
  /\ phase' = "effects"
  /\ lastOp' = NoOp
  /\ passes' = << >>
  /\ UNCHANGED << fields, nextId >>
  /\ UNCHANGED pureVars

\* fieldConfigPanel.tsx handleCancel's body: write originalField back, then
\* close (onCancel and onClose both clear CreatePage's selectedField)
CancelField(op) ==
  /\ fields' = IF IsDefined(originalField)
               THEN updateField(fields, Fld.id, Get(originalField))
               ELSE fields
  /\ selectedField' = Undefined
  /\ originalField' = Undefined
  /\ hasUnsavedChanges' = FALSE
  /\ showUnsavedDialog' = FALSE
  /\ phase' = "effects"
  /\ lastOp' = op
  /\ passes' = << >>
  /\ UNCHANGED nextId
  /\ UNCHANGED pureVars

\* The panel's "Cancel" button
handleCancel ==
  /\ PanelOpen
  /\ CancelField(Op("handleCancel", Fld.id))

\* fieldConfigPanel.tsx handleClose, the panel's close icon: the dialog when
\* the unsaved flag is up, else createPage.tsx handleCloseField
handleClose ==
  /\ PanelOpen
  /\ lastOp' = Op("handleClose", Fld.id)
  /\ IF hasUnsavedChanges
     THEN /\ showUnsavedDialog' = TRUE
          /\ UNCHANGED << fields, nextId, selectedField, originalField,
                          hasUnsavedChanges, phase, passes >>
     ELSE /\ selectedField' = Undefined
          /\ originalField' = Undefined
          /\ showUnsavedDialog' = FALSE
          /\ phase' = "effects"
          /\ passes' = << >>
          /\ UNCHANGED << fields, nextId, hasUnsavedChanges >>
  /\ UNCHANGED pureVars

\* The dialog's "Discard Changes" button: the dialog goes, then handleCancel
handleConfirmClose ==
  /\ phase = "idle"
  /\ showUnsavedDialog
  /\ IsDefined(selectedField)
  /\ CancelField(Op("handleConfirmClose", Fld.id))

\* The dialog's "Keep Editing" button, and a click outside the dialog
handleCancelClose ==
  /\ phase = "idle"
  /\ showUnsavedDialog
  /\ showUnsavedDialog' = FALSE
  /\ lastOp' = Op("handleCancelClose", Fld.id)
  /\ UNCHANGED << fields, nextId, selectedField, originalField,
                  hasUnsavedChanges, phase, passes >>
  /\ UNCHANGED pureVars

\* ------------------------------------------------------------------ effects
\* validationRules.tsx effects on the panel's field: the auto-add of a
\* notEmpty rule, then the rule clean-up; each one that fires dispatches
\* its rules through handleValidationRulesChange
RuleEffects(flds, field) ==
  LET rules == field.validationRules
      added == Append(rules, MakeRule("notEmpty", field.type))
      afterRequired ==
        IF field.required /\ ~hasRequiredRule(rules)
        THEN updateField(flds, field.id, RulesChangeUpdate(added))
        ELSE flds
      relevantRules == getRelevantRules(rules, field.type)
  IN IF Len(relevantRules) # Len(rules)
     THEN updateField(afterRequired, field.id, RulesChangeUpdate(relevantRules))
     ELSE afterRequired

\* One commit: React runs the effects of the render that showed `fields` and
\* `selectedField`, children first: the rule effects and the panel's snapshot
\* effect, then CreatePage's selected-field sync and derived clean-up.  The
\* commit repeats while it changes anything, and no handler runs in between.
Commit ==
  /\ phase = "effects"
  /\ LET open == IsDefined(selectedField)
         afterRules == IF open THEN RuleEffects(fields, Fld) ELSE fields
         synced == IF open
                   THEN IF Fld.id \in FieldIds(fields)
                        THEN Some(FieldById(fields, Fld.id)) ELSE Undefined
                   ELSE Undefined
         stillOpen == IsDefined(synced)
         newFields == ApplyCleanup(afterRules, fields)
         newOriginal == IF stillOpen THEN selectedField ELSE Undefined
         newUnsaved == stillOpen
     IN /\ fields' = newFields
        /\ selectedField' = synced
        /\ originalField' = newOriginal
        /\ hasUnsavedChanges' = newUnsaved
        /\ showUnsavedDialog' = (stillOpen /\ showUnsavedDialog)
        /\ passes' = IF /\ Len(passes) < MaxPasses
                        /\ \/ PassRecord(fields) # {}
                           \/ Len(passes) > 0 /\ passes[Len(passes)] # {}
                     THEN Append(passes, PassRecord(fields)) ELSE passes
        /\ phase' = IF /\ newFields = fields /\ synced = selectedField
                       /\ newOriginal = originalField
                       /\ newUnsaved = hasUnsavedChanges
                    THEN "idle" ELSE "effects"
        /\ UNCHANGED << nextId, lastOp >>
        /\ UNCHANGED pureVars

\* ------------------------------------------------------------- saved forms
\* myFormsPage.tsx handleEdit installs a saved form as currentForm.  A saved
\* form is a list of fields with ids 1..n; its derived fields name parents
\* that exist and fit the formula.
LoadedTypes == {"text", "number", "date"}

\* The non-empty sequences of distinct elements of S
SeqsNoDup(S) ==
  { p \in UNION { [1..k -> S] : k \in 1..Cardinality(S) } :
      \A a, b \in 1..Len(p) : a # b => p[a] # p[b] }

LoadedField(id, type, config) ==
  [ NewField(id) EXCEPT !.type = type,
                        !.isDerived = IsDefined(config),
                        !.derivedConfig = config ]

LoadedFieldChoices(n, id) ==
  { LoadedField(id, type, Undefined) : type \in LoadedTypes }
  \cup { LoadedField(id, "number", Some([formula |-> "sum", parentFieldIds |-> p])) :
           p \in SeqsNoDup((1..n) \ {id}) }
  \cup { LoadedField(id, "number",
                     Some([formula |-> "age_from_birthdate", parentFieldIds |-> << j >>])) :
           j \in (1..n) \ {id} }

\* Every parent exists and is compatible with the formula
WellFormed(flds) ==
  \A i \in 1..Len(flds) :
    IsDefined(flds[i].derivedConfig) =>
      LET config == Get(flds[i].derivedConfig)
      IN \A k \in 1..Len(config.parentFieldIds) :
           /\ config.parentFieldIds[k] \in FieldIds(flds)
           /\ LET parent == FieldById(flds, config.parentFieldIds[k])
              IN IF config.formula = "sum"
                 THEN parent.type = "number" /\ ~parent.isDerived
                 ELSE parent.type = "date"

LoadedForms ==
  UNION { { flds \in [1..n -> UNION { LoadedFieldChoices(n, id) : id \in 1..n }] :
              /\ \A i \in 1..n : flds[i].id = i
              /\ WellFormed(flds) } : n \in 0..MaxIds }

\* ---------------------------------------------------------- specifications
\* The parts of the editor and of the derived-value computation at rest
EditorIdle ==
  /\ fields = << >>
  /\ nextId = 1
  /\ selectedField = Undefined
  /\ originalField = Undefined
  /\ hasUnsavedChanges = FALSE
  /\ showUnsavedDialog = FALSE
  /\ phase = "idle"
  /\ lastOp = NoOp
  /\ passes = << >>

ValidationIdle ==
  /\ valField = NewField(1)
  /\ valValue = NullVal
  /\ valResult = Undefined

\* CreatePage on a new form, nothing saved yet
UntitledForm ==
  << "U", "n", "t", "i", "t", "l", "e", "d", " ", "F", "o", "r", "m" >>

\* No id in the address, nothing raised, a well-formed list stored
LoadIdle ==
  /\ searchParams = Undefined
  /\ formNotFound = FALSE
  /\ raised = FALSE
  /\ storageKind = "array"
  /\ deleted = { }

SaveIdle ==
  /\ LoadIdle
  /\ route = "create"
  /\ currentForm = Some([ id |-> 1, name |-> UntitledForm ])
  /\ nextFormId = 2
  /\ formName = << >>
  /\ showSaveDialog = FALSE
  /\ isLoading = FALSE
  /\ saveTimer = FALSE
  /\ savedForms = << >>
  /\ storage = << >>
  /\ forms = << >>

PreviewIdle ==
  /\ validationErrors = << >>
  /\ showValidation = FALSE

SumIdle ==
  /\ sumField = NewField(1)
  /\ formData = << >>
  /\ sumResult = Undefined
  /\ now = [ today |-> [ y |-> 2026, m |-> 6, d |-> 15 ], west |-> FALSE ]

\* The editor on a saved or new form: the field list and the derived fields
InitDerived ==
  /\ fields \in LoadedForms
  /\ nextId = Len(fields) + 1
  /\ selectedField = Undefined
  /\ originalField = Undefined
  /\ hasUnsavedChanges = FALSE
  /\ showUnsavedDialog = FALSE
  /\ phase = "effects"
  /\ lastOp = NoOp
  /\ passes = << >>
  /\ ValidationIdle
  /\ SumIdle
  /\ SaveIdle
  /\ PreviewIdle

NextDerived ==
  \/ handleAddField
  \/ handleEditField
  \/ handleDeleteField
  \/ handleFieldTypeChange
  \/ handleDerivedToggle
  \/ handleFormulaChange
  \/ handleParentFieldsChange
  \/ handleSave
  \/ handleCancel
  \/ Commit

SpecDerived == InitDerived /\ [][NextDerived]_vars

\* React runs the effects of every commit: Commit is not postponed for ever
SpecDerivedFair == SpecDerived /\ WF_vars(Commit)

\* The panel on one new field: its type, rules, options and default value
InitRules ==
  /\ fields = << NewField(1) >>
  /\ nextId = 2
  /\ selectedField = Some(NewField(1))
  /\ originalField = Some(NewField(1))
  /\ hasUnsavedChanges = FALSE
  /\ showUnsavedDialog = FALSE
  /\ phase = "effects"
  /\ lastOp = Op("handleAddField", 1)
  /\ passes = << >>
  /\ ValidationIdle
  /\ SumIdle
  /\ SaveIdle
  /\ PreviewIdle

NextRules ==
  \/ handleRequiredToggle
  \/ addRule
  \/ deleteRule
  \/ handleRuleTypeChange
  \/ handleValueChange
  \/ handleFieldTypeChange
  \/ handleDefaultValueChange
  \/ addOption
  \/ updateOption
  \/ deleteOption
  \/ handleDefaultValueForOptionsChange
  \/ handleEditField
  \/ handleSave
  \/ handleCancel
  \/ Commit

SpecRules == InitRules /\ [][NextRules]_vars

\* One session of the panel: a new field is opened, edited, and the panel
\* is left by Cancel or by the close icon and its dialog
InitPanel == InitRules

NextPanel ==
  \/ handleRequiredToggle
  \/ addRule
  \/ deleteRule
  \/ handleFieldTypeChange
  \/ handleDefaultValueChange
  \/ handleCancel
  \/ handleClose
  \/ handleConfirmClose
  \/ handleCancelClose
  \/ Commit

SpecPanel == InitPanel /\ [][NextPanel]_vars

\* ------------------------------------------------------- saving the form
\* A FormSchema (the timestamps are left out)
Form(id, name, flds) == [ id |-> id, name |-> name, fields |-> flds ]

\* JSON.stringify writes no key for an undefined value, and JSON.parse gives
\* undefined for a key that is not there
OptionalKeys == { "options", "derivedConfig", "value" }

stringifyRecord(record) ==
  [ key \in { k \in DOMAIN record : k \in OptionalKeys => IsDefined(record[k]) } |->
      IF key \in OptionalKeys THEN Get(record[key]) ELSE record[key] ]

Entry(json, key) == IF key \in DOMAIN json THEN Some(json[key]) ELSE Undefined

stringifyField(field) ==
  stringifyRecord(
    [ field EXCEPT !.validationRules =
        [ i \in 1..Len(field.validationRules) |->
            stringifyRecord(field.validationRules[i]) ] ])

parseRule(json) ==
  [ type |-> json.type, value |-> Entry(json, "value"), message |-> json.message ]

parseField(json) ==
  [ id |-> json.id, type |-> json.type, required |-> json.required,
    defaultValue |-> json.defaultValue,
    validationRules |->
      [ i \in 1..Len(json.validationRules) |-> parseRule(json.validationRules[i]) ],
    options |-> Entry(json, "options"),
    isDerived |-> json.isDerived,
    derivedConfig |-> Entry(json, "derivedConfig") ]

stringify(list) ==
  [ i \in 1..Len(list) |->
      [ id |-> list[i].id, name |-> list[i].name,
        fields |-> [ j \in 1..Len(list[i].fields) |->
                       stringifyField(list[i].fields[j]) ] ] ]

parse(text) ==
  [ i \in 1..Len(text) |->
      Form(text[i].id, text[i].name,
           [ j \in 1..Len(text[i].fields) |-> parseField(text[i].fields[j]) ]) ]

\* What the user can type as a form name
FormNames == { << >>, << " " >>, << "A" >>, << "B" >> }

\* Array.findIndex by form id: the first index, or 0 for -1
findIndex(list, id) ==
  IF \E i \in 1..Len(list) : list[i].id = id
  THEN CHOOSE i \in 1..Len(list) :
         list[i].id = id /\ \A j \in 1..(i - 1) : list[j].id # id
  ELSE 0

\* A saveForm that appends whatever the list holds
saveFormAppend(list, form) == Append(list, form)

\* savedFormsSlice.saveForm, and the same steps on the parsed storage list
saveForm(list, form) ==
  LET existingIndex == findIndex(list, form.id)
  IN IF existingIndex # 0
     THEN [ list EXCEPT ![existingIndex] = form ]
     ELSE Append(list, form)

\* Variant: the form stays in the list
deleteFormKeep(list, id) == list

\* savedFormsSlice.deleteForm, and MyFormsPage's filter
deleteForm(list, id) ==
  FilterIdx(list, { i \in 1..Len(list) : list[i].id # id }, 1)

\* CreatePage as it mounts: no field selected, no dialog, no save running
CreatePageMounts ==
  /\ selectedField' = Undefined
  /\ originalField' = Undefined
  /\ hasUnsavedChanges' = FALSE
  /\ showUnsavedDialog' = FALSE
  /\ lastOp' = NoOp
  /\ passes' = << >>
  /\ formName' = << >>
  /\ showSaveDialog' = FALSE
  /\ isLoading' = FALSE

\* createPage.tsx, the effect that creates a form when there is none
createNewForm ==
  /\ route = "create"
  /\ phase = "idle"
  /\ ~IsDefined(currentForm)
  /\ nextFormId <= MaxForms
  /\ currentForm' = Some([ id |-> nextFormId, name |-> UntitledForm ])
  /\ fields' = << >>
  /\ nextFormId' = nextFormId + 1
  /\ UNCHANGED << nextId, selectedField, originalField, hasUnsavedChanges,
                  showUnsavedDialog, phase, lastOp, passes >>
  /\ UNCHANGED loadVars
  /\ UNCHANGED << route, formName, showSaveDialog, isLoading, saveTimer,
                  savedForms, storage, forms >>
  /\ UNCHANGED << valVars, sumVars, previewVars >>

\* The "Save Form" button of the page header
handleOpenSaveDialog ==
  /\ PageIdle
  /\ Len(fields) # 0
  /\ formName' = Get(currentForm).name
  /\ showSaveDialog' = TRUE
  /\ UNCHANGED loadVars
  /\ UNCHANGED << route, currentForm, nextFormId, isLoading, saveTimer,
                  savedForms, storage, forms >>
  /\ UNCHANGED << editorVars, valVars, sumVars, previewVars >>

\* The save dialog takes input while no save is running
SaveDialogOpen ==
  /\ route = "create"
  /\ phase = "idle"
  /\ showSaveDialog
  /\ ~isLoading

\* The "Form Name" input of the dialog
handleFormNameChange ==
  /\ SaveDialogOpen
  /\ formName' \in FormNames
  /\ UNCHANGED loadVars
  /\ UNCHANGED << route, currentForm, nextFormId, showSaveDialog, isLoading,
                  saveTimer, savedForms, storage, forms >>
  /\ UNCHANGED << editorVars, valVars, sumVars, previewVars >>

handleCloseSaveDialog ==
  /\ SaveDialogOpen
  /\ showSaveDialog' = FALSE
  /\ UNCHANGED loadVars
  /\ UNCHANGED << route, currentForm, nextFormId, formName, isLoading,
                  saveTimer, savedForms, storage, forms >>
  /\ UNCHANGED << editorVars, valVars, sumVars, previewVars >>

validateFormForSave ==
  /\ IsDefined(currentForm)
  /\ Trim(formName) # << >>
  /\ Len(fields) # 0

\* createPage.tsx handleSaveForm up to its await: the form goes to the
\* store's list and to localStorage, and the timer starts.  A form that does
\* not validate gets a notification only.
handleSaveForm ==
  /\ SaveDialogOpen
  /\ IF validateFormForSave
     THEN LET updatedForm == Form(Get(currentForm).id, formName, fields)
          IN /\ isLoading' = TRUE
             /\ currentForm' = Some([ id |-> updatedForm.id, name |-> formName ])
             /\ savedForms' = saveForm(savedForms, updatedForm)
             /\ storage' = stringify(saveForm(parse(storage), updatedForm))
             /\ saveTimer' = TRUE
             /\ UNCHANGED loadVars
             /\ UNCHANGED << route, nextFormId, formName, showSaveDialog, forms >>
     ELSE UNCHANGED saveVars
  /\ UNCHANGED << editorVars, valVars, sumVars, previewVars >>

\* handleSaveForm after its await: the dialog closes and the current form
\* is cleared.  The state setters reach the page that started the save; when
\* that page has been left meanwhile (isLoading is down again) they reach
\* nothing, and a create page mounted since then loses its form to
\* clearCurrentForm and closes its panel.
saveFormCompleted ==
  /\ saveTimer
  /\ phase = "idle"
  /\ saveTimer' = FALSE
  /\ currentForm' = Undefined
  /\ fields' = << >>
  /\ IF isLoading
     THEN CreatePageMounts
     ELSE /\ selectedField' = Undefined
          /\ originalField' = Undefined
          /\ hasUnsavedChanges' = FALSE
          /\ showUnsavedDialog' = FALSE
          /\ UNCHANGED << lastOp, passes, formName, showSaveDialog, isLoading >>
  /\ phase' = "idle"
  /\ UNCHANGED loadVars
  /\ UNCHANGED << nextId, route, nextFormId, savedForms, storage, forms >>
  /\ UNCHANGED << valVars, sumVars, previewVars >>

\* appLayout.tsx handleNavigation to "My Forms": the route handler clears the
\* current form, and MyFormsPage loads the stored forms as it mounts
handleNavigation ==
  /\ route \in { "create", "preview" }
  /\ phase = "idle"
  /\ ~showUnsavedDialog /\ ~showSaveDialog /\ ~isLoading
  /\ route' = "myforms"
  /\ currentForm' = Undefined
  /\ fields' = << >>
  /\ CreatePageMounts
  /\ forms' = parse(storage)
  /\ savedForms' = parse(storage)
  /\ searchParams' = Undefined
  /\ formNotFound' = FALSE
  /\ UNCHANGED << raised, storageKind, deleted >>
  /\ UNCHANGED << nextId, phase, nextFormId, saveTimer, storage >>
  /\ UNCHANGED << valVars, sumVars, previewVars >>

\* The browser's Back button on the create page when the entry before it is
\* My Forms (the application opens on My Forms).  The router shows My Forms,
\* the route handler clears the current form, the create page is unmounted;
\* no dialog and no backdrop of the page stands in the way, and the timer of
\* a running save stays pending.
popstate ==
  /\ route = "create"
  /\ phase = "idle"
  /\ route' = "myforms"
  /\ currentForm' = Undefined
  /\ fields' = << >>
  /\ CreatePageMounts
  /\ forms' = parse(storage)
  /\ savedForms' = parse(storage)
  /\ UNCHANGED loadVars
  /\ UNCHANGED << nextId, phase, nextFormId, saveTimer, storage >>
  /\ UNCHANGED << valVars, sumVars, previewVars >>

\* myFormsPage.tsx handlePreview: the form of a card becomes the current
\* form and the preview page shows it
handlePreview ==
  /\ route = "myforms"
  /\ \E i \in 1..Len(forms) :
       /\ currentForm' = Some([ id |-> forms[i].id, name |-> forms[i].name ])
       /\ fields' = forms[i].fields
  /\ route' = "preview"
  /\ UNCHANGED loadVars
  /\ UNCHANGED << nextId, selectedField, originalField, hasUnsavedChanges,
                  showUnsavedDialog, phase, lastOp, passes >>
  /\ UNCHANGED << nextFormId, formName, showSaveDialog, isLoading, saveTimer,
                  savedForms, storage, forms >>
  /\ UNCHANGED << valVars, sumVars, previewVars >>

\* The JSON value null as an item of a stored list
JsonNull == [ jsonNull |-> TRUE ]

IsNull(item) == "jsonNull" \in DOMAIN item

\* A stored item with the keys of a form
IsSchema(item) == { "id", "name", "fields" } \subseteq DOMAIN item

\* What JSON.parse of the stored text gives, by storageKind: "array" (the
\* items are in `storage`), "object" and "null" (a value that is no list),
\* "unparseable" (JSON.parse throws), "absent" (no text under the key)
StorageKinds == { "array", "object", "null", "unparseable", "absent" }

\* formStorage loadFormsFromStorage: the list, or "noArray" for a parsed
\* value that is none; `data ? JSON.parse(data) : []` inside try/catch
loadFormsFromStorage(kind, text) ==
  CASE kind = "array" -> [ isArray |-> TRUE, items |-> text ]
    [] kind \in { "absent", "unparseable" } -> [ isArray |-> TRUE, items |-> << >> ]
    [] OTHER -> [ isArray |-> FALSE, items |-> << >> ]

\* formStorage getFormById: forms.find(form => form.id === formId) || null.
\* find reads form.id of each item up to the first hit: on a value without
\* find, and on a null item, it throws.
getFormById(kind, text, formId) ==
  LET loaded == loadFormsFromStorage(kind, text)
      items == loaded.items
      hits == { i \in 1..Len(items) :
                  /\ ~IsNull(items[i])
                  /\ "id" \in DOMAIN items[i]
                  /\ items[i].id = formId }
      first == IF hits = { } THEN Len(items) + 1
               ELSE CHOOSE i \in hits : \A j \in hits : i <= j
  IN IF ~loaded.isArray \/ \E i \in 1..(first - 1) : IsNull(items[i])
     THEN [ raised |-> TRUE, form |-> Undefined ]
     ELSE [ raised |-> FALSE,
            form |-> IF hits = { } THEN Undefined ELSE Some(items[first]) ]

\* The form ids a page address can name
FormIds == 1..MaxForms

\* PreviewPage's load-by-id effect on a page opened without a current form:
\* what it leaves in the store and in the page.  An item set as current form
\* is stored as it is; where it has no name or no fields the model keeps an
\* empty one.
PreviewLoaded(kind, text, formId) ==
  LET got == getFormById(kind, text, formId)
      form == Get(got.form)
  IN [ raised |-> got.raised,
       formNotFound |-> (~got.raised /\ ~IsDefined(got.form)),
       currentForm |->
         IF IsDefined(got.form)
         THEN Some([ id |-> formId,
                     name |-> IF "name" \in DOMAIN form THEN form.name ELSE << >> ])
         ELSE Undefined,
       fields |->
         IF IsDefined(got.form) /\ IsSchema(form)
         THEN parse(<< form >>)[1].fields ELSE << >> ]

\* The page /preview?id=formId is opened from the address bar: the
\* application starts anew (empty store, no timer) and PreviewPage's effect
\* loads the form by its id.
openPreview ==
  /\ phase = "idle"
  /\ \E formId \in FormIds :
       LET loaded == PreviewLoaded(storageKind, storage, formId)
       IN /\ searchParams' = Some(formId)
          /\ raised' = loaded.raised
          /\ formNotFound' = loaded.formNotFound
          /\ currentForm' = loaded.currentForm
          /\ fields' = loaded.fields
  /\ route' = "preview"
  /\ saveTimer' = FALSE
  /\ savedForms' = << >>
  /\ forms' = << >>
  /\ CreatePageMounts
  /\ UNCHANGED << nextId, phase, nextFormId, storage, storageKind, deleted >>
  /\ UNCHANGED << valVars, sumVars, previewVars >>

\* myFormsPage.tsx handleEdit: the form of a card becomes the current form
handleEdit ==
  /\ route = "myforms"
  /\ \E i \in 1..Len(forms) :
       /\ currentForm' = Some([ id |-> forms[i].id, name |-> forms[i].name ])
       /\ fields' = forms[i].fields
  /\ route' = "create"
  /\ CreatePageMounts
  /\ phase' = "effects"
  /\ UNCHANGED loadVars
  /\ UNCHANGED << nextId, nextFormId, saveTimer, savedForms, storage, forms >>
  /\ UNCHANGED << valVars, sumVars, previewVars >>

\* myFormsPage.tsx handleCreateNew
handleCreateNew ==
  /\ route = "myforms"
  /\ currentForm' = Undefined
  /\ fields' = << >>
  /\ route' = "create"
  /\ CreatePageMounts
  /\ UNCHANGED loadVars
  /\ UNCHANGED << nextId, phase, nextFormId, saveTimer, savedForms, storage, forms >>
  /\ UNCHANGED << valVars, sumVars, previewVars >>

\* myFormsPage.tsx handleDelete
handleDelete ==
  /\ route = "myforms"
  /\ \E i \in 1..Len(forms) :
       LET updatedForms == deleteForm(forms, forms[i].id)
       IN /\ forms' = updatedForms
          /\ storage' = stringify(updatedForms)
          /\ savedForms' = deleteForm(savedForms, forms[i].id)
          /\ deleted' = deleted \cup { forms[i].id }
  /\ UNCHANGED << route, currentForm, nextFormId, formName, showSaveDialog,
                  isLoading, saveTimer >>
  /\ UNCHANGED << searchParams, formNotFound, raised, storageKind >>
  /\ UNCHANGED << editorVars, valVars, sumVars, previewVars >>

\* The application started on the "Create Form" page with nothing stored
InitSave ==
  /\ EditorIdle
  /\ LoadIdle
  /\ ValidationIdle
  /\ SumIdle
  /\ PreviewIdle
  /\ route = "create"
  /\ currentForm = Undefined
  /\ nextFormId = 1
  /\ formName = << >>
  /\ showSaveDialog = FALSE
  /\ isLoading = FALSE
  /\ saveTimer = FALSE
  /\ savedForms = << >>
  /\ storage = << >>
  /\ forms = << >>

NextSave ==
  \/ createNewForm
  \/ handleAddField
  \/ handleRequiredToggle
  \/ Commit
  \/ handleOpenSaveDialog
  \/ handleFormNameChange
  \/ handleCloseSaveDialog
  \/ handleSaveForm
  \/ saveFormCompleted
  \/ handleNavigation
  \/ handleEdit
  \/ handleCreateNew
  \/ handleDelete

SpecSave == InitSave /\ [][NextSave]_vars

\* ------------------------------------------------------------ the preview
\* The forms opened in the preview: a sum over two number fields, an age
\* over a date field, and a form without derived fields
PreviewRule(type, value) ==
  [ type |-> type, value |-> value, message |-> getDefaultMessage(type, "number") ]

PreviewForms ==
  { << [ NewField(1) EXCEPT !.type = "number", !.required = TRUE,
                            !.validationRules = << PreviewRule("notEmpty", Undefined) >> ],
       [ NewField(2) EXCEPT !.type = "number", !.defaultValue = NumVal(2) ],
       [ LoadedField(3, "number", Some([ formula |-> "sum", parentFieldIds |-> << 1, 2 >> ]))
           EXCEPT !.validationRules = << PreviewRule("minLength", Some(3)) >> ] >>,
    << LoadedField(1, "date", Undefined),
       [ LoadedField(2, "number",
                     Some([ formula |-> "age_from_birthdate", parentFieldIds |-> << 1 >> ]))
           EXCEPT !.validationRules = << PreviewRule("minLength", Some(18)) >> ],
       [ NewField(3) EXCEPT !.required = TRUE,
                            !.validationRules = << PreviewRule("notEmpty", Undefined) >> ] >>,
    << [ NewField(1) EXCEPT !.defaultValue = StrVal(<< "a", "b" >>) ],
       [ NewField(2) EXCEPT !.type = "number" ] >> }

\* The days the preview runs on
PreviewClocks ==
  { [ today |-> [ y |-> 2026, m |-> 6, d |-> 15 ], west |-> FALSE ],
    [ today |-> [ y |-> 2026, m |-> 6, d |-> 14 ], west |-> TRUE ] }

\* What the input of a field can hand to handleFieldChange
PreviewInputs(field) ==
  CASE field.type = "number" -> { EmptyStr, NumVal(0), NumVal(2) }
    [] field.type = "date" ->
         { EmptyStr,
           StrVal(<< "2", "0", "0", "0", "-", "0", "6", "-", "1", "5" >>),
           StrVal(<< "2", "0", "0", "8", "-", "0", "6", "-", "1", "5" >>) }
    [] OTHER -> { EmptyStr, StrVal(<< "a", "b" >>) }

\* formData = {}: no field has a value
NoData(flds) == [ id \in FieldIds(flds) |-> NullVal ]

\* The effect that fills in the default values: its initialData
InitialData(flds) ==
  [ id \in FieldIds(flds) |->
      LET field == FieldById(flds, id)
      IN IF ~field.isDerived /\ field.defaultValue # EmptyStr
         THEN field.defaultValue ELSE NullVal ]

\* Variant: a derived field that holds a value keeps it
UpdatedDataFillOnly(flds, data, clock) ==
  [ id \in DOMAIN data |->
      LET field == FieldById(flds, id)
      IN IF field.isDerived /\ data[id] = NullVal
         THEN calculateDerivedValue(field, data, clock)
         ELSE data[id] ]

\* The recalculation effect: its updatedData, every derived field computed
\* from the rendered formData
UpdatedData(flds, data, clock) ==
  [ id \in DOMAIN data |->
      LET field == FieldById(flds, id)
          derivedValue == calculateDerivedValue(field, data, clock)
      IN IF field.isDerived /\ data[id] # derivedValue
         THEN derivedValue
         ELSE data[id] ]

\* PreviewPage after it mounted: both effects ran on formData = {}, and the
\* recalculation's setFormData, when it has changes, is the one that stays
MountData(flds, clock) ==
  IF UpdatedData(flds, NoData(flds), clock) # NoData(flds)
  THEN UpdatedData(flds, NoData(flds), clock)
  ELSE InitialData(flds)

PreviewReady == route = "preview" /\ phase = "idle"

\* The recalculation effect, run after a render with a new formData
recalculate ==
  /\ route = "preview"
  /\ phase = "effects"
  /\ LET updatedData == UpdatedData(fields, formData, now)
         hasChanges == updatedData # formData
     IN /\ formData' = IF hasChanges THEN updatedData ELSE formData
        /\ phase' = IF hasChanges THEN "effects" ELSE "idle"
  /\ UNCHANGED << fields, nextId, selectedField, originalField, hasUnsavedChanges,
                  showUnsavedDialog, lastOp, passes >>
  /\ UNCHANGED << sumField, sumResult, now >>
  /\ UNCHANGED << valVars, saveVars, previewVars >>

\* previewPage.tsx handleFieldChange: the inputs of derived fields are disabled
handleFieldChange ==
  /\ PreviewReady
  /\ \E fieldId \in FieldIds(fields) :
       /\ ~FieldById(fields, fieldId).isDerived
       /\ \E value \in PreviewInputs(FieldById(fields, fieldId)) :
            formData' = [ formData EXCEPT ![fieldId] = value ]
       /\ validationErrors' = [ validationErrors EXCEPT ![fieldId] = Undefined ]
       /\ lastOp' = Op("handleFieldChange", fieldId)
  /\ phase' = "effects"
  /\ UNCHANGED << fields, nextId, selectedField, originalField, hasUnsavedChanges,
                  showUnsavedDialog, passes >>
  /\ UNCHANGED << sumField, sumResult, now, showValidation >>
  /\ UNCHANGED << valVars, saveVars >>

\* previewPage.tsx validateForm: the messages by field id
validateForm(flds, data) ==
  [ id \in FieldIds(flds) |->
      LET error == validateField(FieldById(flds, id), data[id])
      IN IF IsError(error) THEN error ELSE Undefined ]

\* The "Validate Form" button
handleSubmit ==
  /\ PreviewReady
  /\ validationErrors' = validateForm(fields, formData)
  /\ showValidation' = TRUE
  /\ lastOp' = Op("handleSubmit", 0)
  /\ UNCHANGED << fields, nextId, selectedField, originalField, hasUnsavedChanges,
                  showUnsavedDialog, phase, passes >>
  /\ UNCHANGED << valVars, sumVars, saveVars >>

\* The "Clear Form" button
handleClearForm ==
  /\ PreviewReady
  /\ formData' = NoData(fields)
  /\ validationErrors' = [ id \in FieldIds(fields) |-> Undefined ]
  /\ showValidation' = FALSE
  /\ phase' = "effects"
  /\ lastOp' = Op("handleClearForm", 0)
  /\ UNCHANGED << fields, nextId, selectedField, originalField, hasUnsavedChanges,
                  showUnsavedDialog, passes >>
  /\ UNCHANGED << sumField, sumResult, now >>
  /\ UNCHANGED << valVars, saveVars >>

\* The preview of a form, mounted
InitPreview ==
  /\ fields \in PreviewForms
  /\ nextId = Len(fields) + 1
  /\ selectedField = Undefined
  /\ originalField = Undefined
  /\ hasUnsavedChanges = FALSE
  /\ showUnsavedDialog = FALSE
  /\ phase = "effects"
  /\ lastOp = NoOp
  /\ passes = << >>
  /\ ValidationIdle
  /\ sumField = NewField(1)
  /\ sumResult = Undefined
  /\ now \in PreviewClocks
  /\ formData = MountData(fields, now)
  /\ LoadIdle
  /\ route = "preview"
  /\ currentForm = Some([ id |-> 1, name |-> UntitledForm ])
  /\ nextFormId = 2
  /\ formName = << >>
  /\ showSaveDialog = FALSE
  /\ isLoading = FALSE
  /\ saveTimer = FALSE
  /\ savedForms = << >>
  /\ storage = << >>
  /\ forms = << >>
  /\ validationErrors = [ id \in FieldIds(fields) |-> Undefined ]
  /\ showValidation = FALSE

NextPreview ==
  \/ recalculate
  \/ handleFieldChange
  \/ handleSubmit
  \/ handleClearForm

\* React runs a pending effect: the recalculation is never put off for ever
SpecPreview == InitPreview /\ [][NextPreview]_vars /\ WF_vars(recalculate)

\* ------------------------------------------------- validation, on its own
\* The field types the engine tells apart: checkbox, number, and the rest
ValTypes == { "text", "number", "checkbox" }
ValBounds == { 1, 3 }
\* A rule as the rule editor leaves it: the default message or a cleared one
ValRulesFor(fieldType) ==
  UNION { { [ type |-> t, value |-> v, message |-> m ] :
              v \in IF t \in { "minLength", "maxLength" }
                    THEN { Some(b) : b \in ValBounds } ELSE { Undefined },
              m \in { "", getDefaultMessage(t, fieldType) } } :
          t \in Range(getAvailableValidationRules(fieldType)) }

ValFields ==
  UNION { { [ NewField(1) EXCEPT !.type = t, !.validationRules = rules ] :
              rules \in UNION { [1..k -> ValRulesFor(t)] : k \in 0..MaxValRules } } :
          t \in ValTypes }

ValValues ==
  { NullVal, NumVal(0), NumVal(2), NumVal(5),
    ListVal(<< >>), ListVal(<< << "a" >> >>),
    StrVal(<< >>), StrVal(<< " " >>), StrVal(<< "5" >>), StrVal(<< "2", "x" >>),
    StrVal(<< "x" >>), StrVal(<< "a", "b", "c", "d" >>),
    StrVal(<< "a", "@", "b", ".", "c" >>) }

InitValidate ==
  /\ EditorIdle
  /\ SaveIdle
  /\ PreviewIdle
  /\ SumIdle
  /\ valField \in ValFields
  /\ valValue \in ValValues
  /\ valResult = Undefined

\* utils/validation.ts validateField applied to the input
validate ==
  /\ valResult' = Some([ variant |-> "validation", error |-> validateField(valField, valValue) ])
  /\ UNCHANGED << valField, valValue >>
  /\ UNCHANGED << editorVars, sumVars, saveVars, previewVars >>

\* the number-range variant of validateField applied to the input
validateRange ==
  /\ valResult' = Some([ variant |-> "range", error |-> validateFieldRange(valField, valValue) ])
  /\ UNCHANGED << valField, valValue >>
  /\ UNCHANGED << editorVars, sumVars, saveVars, previewVars >>

NextValidate ==
  \/ validate
  \/ validateRange

SpecValidate == InitValidate /\ [][NextValidate]_vars

\* ---------------------------------------------- derived values, on their own
\* A derived field over the fields 1..MaxParents, or a plain field
SumFieldId == MaxParents + 1
SumFields ==
  { [ NewField(SumFieldId) EXCEPT
        !.type = "number", !.isDerived = TRUE,
        !.derivedConfig = Some([ formula |-> "sum", parentFieldIds |-> p ]) ] :
      p \in { << >> } \cup SeqsNoDup(1..MaxParents) }
  \cup { [ NewField(SumFieldId) EXCEPT !.type = "number", !.defaultValue = d ] :
           d \in { EmptyStr, NumVal(0), NumVal(2) } }

AgeField ==
  [ NewField(SumFieldId) EXCEPT
      !.type = "number", !.isDerived = TRUE,
      !.derivedConfig = Some([ formula |-> "age_from_birthdate",
                               parentFieldIds |-> << 1 >> ]) ]

SumValues ==
  { NullVal, NumVal(2), NumVal(3), StrVal(<< >>), StrVal(<< "3" >>),
    StrVal(<< "-", "1" >>), StrVal(<< "2", "x" >>),
    StrVal(<< "o", "o", "p", "s" >>) }

\* What a date input holds: nothing, or a date as "YYYY-MM-DD"
DateValues ==
  { NullVal, StrVal(<< >>), StrVal(<< "o", "o", "p", "s" >>),
    StrVal(<< "2", "0", "0", "0", "-", "0", "3", "-", "0", "1" >>),
    StrVal(<< "2", "0", "0", "0", "-", "0", "6", "-", "1", "5" >>),
    StrVal(<< "2", "0", "0", "8", "-", "0", "6", "-", "1", "5" >>),
    StrVal(<< "2", "0", "3", "0", "-", "0", "1", "-", "0", "1" >>) }

\* The days the form may be filled in on, and the side of Greenwich
Clocks ==
  { [ today |-> [ y |-> 2026, m |-> m, d |-> d ], west |-> w ] :
      m \in { 2, 6 }, d \in { 14, 15, 28 }, w \in BOOLEAN }

ParentValues(field, id) ==
  IF field = AgeField /\ id = 1 THEN DateValues ELSE SumValues

InitSum ==
  /\ EditorIdle
  /\ SaveIdle
  /\ PreviewIdle
  /\ ValidationIdle
  /\ sumField \in SumFields \cup { AgeField }
  /\ formData \in { data \in [1..MaxParents -> SumValues \cup DateValues] :
                      \A id \in 1..MaxParents : data[id] \in ParentValues(sumField, id) }
  /\ sumResult = Undefined
  /\ now \in Clocks

\* previewPage.tsx: the recalculation effect's call for one derived field
calculate ==
  /\ sumResult = Undefined
  /\ sumResult' = Some(calculateDerivedValue(sumField, formData, now))
  /\ UNCHANGED << sumField, formData, now >>
  /\ UNCHANGED << editorVars, valVars, saveVars, previewVars >>

\* a value of a parent field changes
changeParentValue ==
  /\ sumResult # Undefined
  /\ \E id \in 1..MaxParents, value \in SumValues \cup DateValues :
       /\ value \in ParentValues(sumField, id)
       /\ formData' = [ formData EXCEPT ![id] = value ]
       /\ sumResult' = Undefined
  /\ UNCHANGED << sumField, now >>
  /\ UNCHANGED << editorVars, valVars, saveVars, previewVars >>

NextSum ==
  \/ calculate
  \/ changeParentValue

SpecSum == InitSum /\ [][NextSum]_vars

\* ------------------------------------------------- a new form in the editor
\* createPage.tsx createNewForm effect: the form the create page starts with
InitNewForm ==
  /\ EditorIdle
  /\ ValidationIdle
  /\ SumIdle
  /\ SaveIdle
  /\ PreviewIdle

\* derivedFieldConfig.tsx DerivedFieldConfigComponent: the derived section of the
\* panel, with its switch, its formula select and its parent select
DerivedFieldConfigComponent ==
  /\ DerivedSectionShown
  /\ \/ handleDerivedToggle
     \/ handleFormulaChange
     \/ handleParentFieldsChange

NextNewForm ==
  \/ handleAddField
  \/ handleEditField
  \/ handleDeleteField
  \/ handleFieldTypeChange
  \/ DerivedFieldConfigComponent
  \/ handleSave
  \/ handleCancel
  \/ Commit

SpecNewForm == InitNewForm /\ [][NextNewForm]_vars

\* ------------------------------------------------- reordering the field list
NextReorder ==
  \/ handleAddField
  \/ handleDeleteField
  \/ handleDrop
  \/ Commit

SpecReorder == InitDerived /\ [][NextReorder]_vars

\* ------------------------------------------------- the pages and the history
NextRoutes ==
  \/ NextSave
  \/ popstate
  \/ handlePreview
  \/ openPreview

SpecRoutes == InitSave /\ [][NextRoutes]_vars

\* ------------------------------------------- a preview opened by its form id
\* A stored form with no field, or with one new field
StoredForms ==
  { stringify(<< Form(id, << "A" >>, flds) >>)[1] :
      id \in FormIds, flds \in { << >>, << NewField(1) >> } }

\* Items that are no forms: an object with an id only, one with an id and a
\* name but no fields, and null
MalformedItems ==
  { [ id |-> id ] : id \in FormIds }
    \cup { [ id |-> id, name |-> << "A" >> ] : id \in FormIds }
    \cup { JsonNull }

StoredLists ==
  UNION { [ 1..n -> StoredForms \cup MalformedItems ] : n \in 0..MaxForms }

\* The page /preview?id=... has been opened on some stored content
InitLoad ==
  /\ EditorIdle
  /\ ValidationIdle
  /\ SumIdle
  /\ PreviewIdle
  /\ storageKind \in StorageKinds
  /\ storage \in IF storageKind = "array" THEN StoredLists ELSE { << >> }
  /\ \E formId \in FormIds :
       LET loaded == PreviewLoaded(storageKind, storage, formId)
       IN /\ searchParams = Some(formId)
          /\ raised = loaded.raised
          /\ formNotFound = loaded.formNotFound
          /\ currentForm = loaded.currentForm
          /\ fields = loaded.fields
  /\ route = "preview"
  /\ deleted = { }
  /\ nextFormId = 1
  /\ formName = << >>
  /\ showSaveDialog = FALSE
  /\ isLoading = FALSE
  /\ saveTimer = FALSE
  /\ savedForms = << >>
  /\ forms = << >>

NextLoad == openPreview

SpecLoad == InitLoad /\ [][NextLoad]_vars

\* ============================================================== properties
\* ------------------------------------------------------------------- C1
\* C1: in every state the rule editor, the required switch, a type change or
\* a cancel can reach, each field is required exactly when its rule list
\* holds a notEmpty rule.
C1_RequiredIffNotEmpty ==
  \A i \in 1..Len(fields) :
    fields[i].required <=> hasRequiredRule(fields[i].validationRules)

\* A notEmpty rule has just been retyped in the rule editor (the panel still
\* holds the required field): the field is no longer required and holds as
\* many rules as before
C1_Witness ==
  /\ lastOp.name = "handleRuleTypeChange"
  /\ IsDefined(selectedField)
  /\ Fld.id = lastOp.id
  /\ Fld.required
  /\ hasRequiredRule(Fld.validationRules)
  /\ \E i \in 1..Len(fields) :
       /\ fields[i].id = lastOp.id
       /\ ~fields[i].required
       /\ Len(fields[i].validationRules) = Len(Fld.validationRules)

\* ------------------------------------------------------------------- C2
DerivedParents(field) ==
  IF IsDefined(field.derivedConfig)
  THEN Get(field.derivedConfig).parentFieldIds ELSE << >>

\* C2: once the clean-up passes that follow a deletion have settled, no field
\* lists the deleted id (nor any id that names no field) as a parent, no
\* field is left derived over an empty parent list, and every field a pass
\* demoted is not derived and has no derivedConfig.
C2_DeletedParentPruned ==
  (lastOp.name = "handleDeleteField" /\ phase = "idle") =>
    /\ \A i \in 1..Len(fields) :
         /\ lastOp.id \notin Range(DerivedParents(fields[i]))
         /\ Range(DerivedParents(fields[i])) \subseteq FieldIds(fields)
         /\ (fields[i].isDerived \/ IsDefined(fields[i].derivedConfig))
              => Len(DerivedParents(fields[i])) > 0
    /\ \A k \in 1..Len(passes) : \A rec \in passes[k] :
         rec.kind = "demote" =>
           /\ ~FieldById(fields, rec.id).isDerived
           /\ ~IsDefined(FieldById(fields, rec.id).derivedConfig)

\* The sole date parent of an age_from_birthdate field was deleted and the
\* passes have settled after demoting that field
C2_Witness ==
  /\ lastOp.name = "handleDeleteField"
  /\ phase = "idle"
  /\ \E k \in 1..Len(passes) : \E rec \in passes[k] :
       /\ rec.kind = "demote"
       /\ rec.formula = "age_from_birthdate"
       /\ rec.id \in FieldIds(fields)

\* ------------------------------------------------------------------- C3
\* The parents of a derived field fit its formula
ParentsCompatible(field, flds) ==
  LET config == Get(field.derivedConfig)
      parents == config.parentFieldIds
  IN /\ \A k \in 1..Len(parents) :
          /\ parents[k] \in FieldIds(flds)
          /\ FieldById(flds, parents[k]).type =
               (IF config.formula = "sum" THEN "number" ELSE "date")
     /\ config.formula = "age_from_birthdate" => Len(parents) = 1

\* C3: once the clean-up passes that follow a type change have settled,
\* every parent of a derived field has the type its formula needs (number
\* for sum; exactly one parent, a date, for age_from_birthdate).
C3_ParentsStayCompatible ==
  (lastOp.name = "handleFieldTypeChange" /\ phase = "idle") =>
    \A i \in 1..Len(fields) :
      (fields[i].isDerived /\ IsDefined(fields[i].derivedConfig))
        => ParentsCompatible(fields[i], fields)

\* ------------------------------------------------------------------- C4
\* C4: once a type change and the rule clean-up it triggers have settled, the
\* changed field holds only rules of the types getAvailableValidationRules
\* lists for its new type.
C4_RulesAllowedAfterTypeChange ==
  (lastOp.name = "handleFieldTypeChange" /\ phase = "idle") =>
    \A i \in 1..Len(fields) :
      fields[i].id = lastOp.id =>
        \A k \in 1..Len(fields[i].validationRules) :
          fields[i].validationRules[k].type
            \in Range(getAvailableValidationRules(fields[i].type))

\* ------------------------------------------------------------------- C5
\* C5: in every state, each field has a derivedConfig exactly when it is
\* derived, and is derived only if its type is number.
C5_DerivedConfigIffDerived ==
  \A i \in 1..Len(fields) :
    /\ IsDefined(fields[i].derivedConfig) <=> fields[i].isDerived
    /\ fields[i].isDerived => fields[i].type = "number"

\* A derived field has just been given another type than number: it lost
\* its flag and its configuration (the panel still holds the derived copy)
C5_Witness ==
  /\ lastOp.name = "handleFieldTypeChange"
  /\ IsDefined(selectedField)
  /\ Fld.id = lastOp.id
  /\ Fld.type = "number"
  /\ Fld.isDerived
  /\ IsDefined(Fld.derivedConfig)
  /\ FieldById(fields, lastOp.id).type # "number"
  /\ ~FieldById(fields, lastOp.id).isDerived

\* ------------------------------------------------------------------- C6
\* C6: in every state, a field of type select, radio or checkbox has a
\* non-empty options list and a field of any other type has no options.
C6_OptionsMatchType ==
  \A i \in 1..Len(fields) :
    IF fields[i].type \in ChoiceTypes
    THEN IsDefined(fields[i].options) /\ Len(Get(fields[i].options)) > 0
    ELSE ~IsDefined(fields[i].options)

\* ------------------------------------------------------------------- C7
\* C7: the clean-up pass is a fixed point: a pass that runs right after a
\* pass that dispatched updates dispatches none, and in every state a pass
\* applied to the outcome of a pass changes no field.
C7_PassIsFixedPoint ==
  /\ \A k \in 2..Len(passes) : passes[k - 1] # {} => passes[k] = {}
  /\ FieldsToUpdate(ApplyCleanup(fields, fields)) = {}
  /\ LET once == ApplyCleanup(fields, fields)
     IN ApplyCleanup(once, once) = once

\* A pass pruned or demoted a field and the pass after it dispatched nothing
C7_Witness ==
  /\ Len(passes) = 2
  /\ passes[1] # {}
  /\ passes[2] = {}
  /\ phase = "idle"

\* ------------------------------------------------------------------- C8
\* The rules of the validated field that fail on the value: those for which
\* the variant's validateRule returns a text
FailingRules(range) ==
  { i \in 1..Len(valField.validationRules) :
      IsDefined(validateRuleOf(valField.validationRules[i], valValue,
                               valField.type, range)) }

Least(S) == CHOOSE i \in S : \A j \in S : i <= j

\* C8: validateField returns the message of the first rule of the list that
\* fails on the value, and null when no rule fails; never the message of a
\* later rule, never another text.
C8_FirstFailingMessage ==
  IsDefined(valResult) =>
    LET failing == FailingRules(Get(valResult).variant = "range")
    IN Get(valResult).error =
         (IF failing = {} THEN Null
          ELSE Some(MessageText(valField.validationRules[Least(failing)].message)))

\* ------------------------------------------------------------------- C9
\* C9: on a number field whose one rule is a minLength (maxLength) rule of
\* bound b with a message, validateField reports an error exactly when the
\* value, coerced to a number, is below (above) b or cannot be coerced.
C9_NumberBound ==
  ( /\ IsDefined(valResult)
    /\ valField.type = "number"
    /\ Len(valField.validationRules) = 1
    /\ valField.validationRules[1].type \in { "minLength", "maxLength" }
    /\ IsDefined(valField.validationRules[1].value)
    /\ valField.validationRules[1].message # "" )
  => LET rule == valField.validationRules[1]
         bound == Get(rule.value)
         numValue == ToNumber(valValue)
         outside == IF rule.type = "minLength"
                    THEN numValue.n < bound ELSE numValue.n > bound
     IN IsDefined(Get(valResult).error) <=> (numValue.nan \/ outside)

\* ------------------------------------------------------------------ C10
\* What a parent's value adds to a sum: the number it holds or is the
\* numeral of (as Number() reads it), and 0 when it is absent or not numeric
Contribution(value) ==
  IF ToNumber(value).nan THEN 0 ELSE ToNumber(value).n

RECURSIVE SumOver(_)
SumOver(ids) ==
  IF ids = {} THEN 0
  ELSE LET id == CHOOSE x \in ids : TRUE
       IN Contribution(formData[id]) + SumOver(ids \ {id})

\* C10: the value computed for a derived sum field is the arithmetic sum of
\* its parents' values, an absent or non-numeric value counting 0, whatever
\* the order of the parent ids.
C10_SumOfParents ==
  ( /\ IsDefined(sumResult)
    /\ sumField.isDerived
    /\ IsDefined(sumField.derivedConfig)
    /\ Get(sumField.derivedConfig).formula = "sum" )
  => Get(sumResult) = NumVal(SumOver(Range(Get(sumField.derivedConfig).parentFieldIds)))

\* ------------------------------------------------------------------ C11
\* The age the entered birthdate gives on the local day `today`: the years
\* between them, one less while the birthday of the year is still ahead,
\* never below 0; 0 for no birthdate or a text that is no date
AgeOn(value, today) ==
  LET parsed == ParseDate(ToStr(value))
  IN IF ~IsDefined(parsed) THEN 0
     ELSE LET birth == Get(parsed)
              years == today.y - birth.y
              ahead == today.m < birth.m \/ (today.m = birth.m /\ today.d < birth.d)
              age == IF ahead THEN years - 1 ELSE years
          IN IF age < 0 THEN 0 ELSE age

\* C11: the value computed for an age_from_birthdate field is the current
\* year minus the birth year, less one while today's (month, day) precedes
\* the birthdate's, never below 0, and 0 for an absent or unparsable date.
C11_AgeFromBirthdate ==
  (IsDefined(sumResult) /\ sumField = AgeField)
    => Get(sumResult) = NumVal(AgeOn(formData[1], now.today))

\* ------------------------------------------------------------------ C12
\* C12: a session of the panel opens the field as NewField(1); once the
\* session is left by Cancel, or by Close and "Discard Changes", the stored
\* field equals that open-time snapshot and the unsaved flag is down.
C12_DiscardRestoresSnapshot ==
  (lastOp.name \in { "handleCancel", "handleConfirmClose" } /\ phase = "idle")
    => /\ fields = << NewField(1) >>
       /\ ~hasUnsavedChanges

\* ------------------------------------------------------------------ C13
\* C13: a field that was opened and not edited is not flagged as unsaved,
\* and Close closes its panel at once, without the dialog; after an edit
\* (the stored field differs from the one opened) Close never closes the
\* panel without the dialog.
C13_FlagOnlyAfterEdit ==
  /\ [](lastOp.name = "handleAddField" => ~hasUnsavedChanges)
  /\ [][ (phase = "idle" /\ lastOp'.name = "handleClose")
           => /\ lastOp.name = "handleAddField"
                   => (~IsDefined(selectedField') /\ ~showUnsavedDialog')
              /\ fields # << NewField(1) >>
                   => (IsDefined(selectedField') /\ showUnsavedDialog') ]_vars

\* ------------------------------------------------------------------ C14
\* The list holds exactly one entry with that id, and it is `form`
OneEntry(list, form) ==
  /\ Cardinality({ i \in 1..Len(list) : list[i].id = form.id }) = 1
  /\ \E i \in 1..Len(list) : list[i] = form

Stored(list, id) == \E i \in 1..Len(list) : list[i].id = id

\* C14: when an explicit save succeeds, the store's list and the persisted
\* list each hold exactly one entry with the current form's id, with the
\* fields in memory at the save and the name entered; a save of an id that
\* was stored already replaces the entry and adds none.
C14_SaveStoresOneEntry ==
  [][ (~isLoading /\ isLoading')
        => LET saved == Form(Get(currentForm).id, formName, fields)
           IN /\ OneEntry(savedForms', saved)
              /\ OneEntry(parse(storage'), saved)
              /\ Stored(savedForms, saved.id) => Len(savedForms') = Len(savedForms)
              /\ Stored(parse(storage), saved.id)
                   => Len(parse(storage')) = Len(parse(storage)) ]_vars

\* A stored form was opened from "My Forms" and saved again, in front of a
\* form stored after it
C14_Witness ==
  /\ isLoading
  /\ Len(savedForms) = 2
  /\ Len(storage) = 2
  /\ savedForms[1].id = Get(currentForm).id
  /\ savedForms[1].fields = fields

\* ------------------------------------------------------------------ C15
\* The rules that are not notEmpty, in order
OtherRules(rules) ==
  FilterIdx(rules, { i \in 1..Len(rules) : rules[i].type # "notEmpty" }, 1)

\* C15: a step of the required switch to true on a field without a notEmpty
\* rule puts exactly one notEmpty rule at the head of the list and keeps
\* the other rules in order; on a field that has one it adds nothing; a
\* step to false removes every notEmpty rule and no other rule.
C15_RequiredToggleRules ==
  [][ (PanelOpen /\ lastOp' = Op("handleRequiredToggle", Fld.id) /\ phase' = "effects")
        => LET before == FieldById(fields, Fld.id)
               after == FieldById(fields', Fld.id)
               old == before.validationRules
               new == after.validationRules
           IN IF after.required
              THEN IF hasRequiredRule(old)
                   THEN new = old
                   ELSE /\ Len(new) = Len(old) + 1
                        /\ new[1].type = "notEmpty"
                        /\ Tail(new) = old
              ELSE new = OtherRules(old) ]_vars

\* The switch has just gone on for a field that held two other rules, and
\* has just gone off for a field that held a rule beside its notEmpty rule
C15_Witness ==
  /\ lastOp.name = "handleRequiredToggle"
  /\ phase = "effects"
  /\ IsDefined(selectedField)
  /\ LET stored == FieldById(fields, Fld.id)
     IN /\ ~Fld.required
        /\ Len(Fld.validationRules) = 2
        /\ stored.required
        /\ Len(stored.validationRules) = 3
        /\ Tail(stored.validationRules) = Fld.validationRules

\* ------------------------------------------------------------------ C16
\* The type select has just dispatched: the panel still shows the field as
\* it was, the store holds it with its new type
TypeChanged(from, to) ==
  /\ lastOp.name = "handleFieldTypeChange"
  /\ IsDefined(selectedField)
  /\ Fld.id \in FieldIds(fields)
  /\ Fld.type = from
  /\ FieldById(fields, Fld.id).type = to

\* C16: once a field's type has been changed from number to text, its rule
\* list holds no minLength and no maxLength rule.
C16_NumberToTextDropsBounds ==
  TypeChanged("number", "text")
    => \A i \in 1..Len(FieldById(fields, Fld.id).validationRules) :
         FieldById(fields, Fld.id).validationRules[i].type
           \notin { "minLength", "maxLength" }

\* ------------------------------------------------------------------ C17
\* C17: once a field's type has been changed to checkbox from any other
\* type, its defaultValue is the empty list.
C17_CheckboxDefaultIsEmptyList ==
  \A from \in FieldTypes \ { "checkbox" } :
    TypeChanged(from, "checkbox")
      => FieldById(fields, Fld.id).defaultValue = ListVal(<< >>)

\* ------------------------------------------------------------------ C18
\* No derived field names a field that is itself derived as a parent
NoDerivedParent ==
  \A i \in 1..Len(fields) :
    fields[i].isDerived =>
      \A id \in Range(DerivedParents(fields[i])) \cap FieldIds(fields) :
        ~FieldById(fields, id).isDerived

\* The derived fields that draw on field `id`
Dependents(id) ==
  { i \in 1..Len(fields) : fields[i].isDerived /\ id \in Range(DerivedParents(fields[i])) }

DerivedSettled ==
  \A i \in 1..Len(fields) :
    fields[i].isDerived =>
      formData[fields[i].id] = calculateDerivedValue(fields[i], formData, now)

\* C19: in the preview, after any change of a value and after clearing the
\* form, the recalculation comes to rest, and at rest every derived field's
\* value is the one calculateDerivedValue gives for the data at rest.
C19_RecalculationSettles ==
  /\ [](PreviewReady => DerivedSettled)
  /\ (phase = "effects") ~> (phase = "idle")

\* Both parents of the sum field were given the value 2 and the sum, 4, is
\* at rest
C19_Witness ==
  /\ PreviewReady
  /\ lastOp.name = "handleFieldChange"
  /\ \E i \in 1..Len(fields) :
       /\ fields[i].isDerived
       /\ Get(fields[i].derivedConfig).formula = "sum"
       /\ formData[fields[i].id] = NumVal(4)

\* ------------------------------------------------------------------ C20
\* C20: in the preview, once validation has run and the data is at rest,
\* the error mapping has an entry for a field only if validateField gives
\* a message for the field's current value.
C20_ErrorsMatchValues ==
  (PreviewReady /\ showValidation) =>
    \A id \in FieldIds(fields) :
      IsDefined(validationErrors[id])
        => IsError(validateField(FieldById(fields, id), formData[id]))

\* ------------------------------------------------------------------ C23
\* C23: after any sequence of rule-editor operations, every minLength and
\* maxLength rule of every field has a bound, and the bound is at least 1.
C23_BoundAtLeastOne ==
  \A i \in 1..Len(fields) : \A k \in 1..Len(fields[i].validationRules) :
    LET rule == fields[i].validationRules[k]
    IN rule.type \in { "minLength", "maxLength" }
         => IsDefined(rule.value) /\ Get(rule.value) >= 1

\* The bound of a rule was 2 and its input has just been cleared
C23_Witness ==
  /\ lastOp.name = "handleValueChange"
  /\ IsDefined(selectedField)
  /\ \E k \in 1..Len(Fld.validationRules) :
       /\ Fld.validationRules[k].type \in { "minLength", "maxLength" }
       /\ Fld.validationRules[k].value = Some(2)
       /\ FieldById(fields, Fld.id).validationRules[k].value = Some(1)

\* ------------------------------------------------------------------ C27
\* C27: after any sequence of rule-editor and required-toggle operations
\* on a field that starts with no rules, validationRules never holds two
\* rules of the same type.
C27_NoDuplicateRuleTypes ==
  \A i \in 1..Len(fields) :
    \A k, l \in 1..Len(fields[i].validationRules) :
      fields[i].validationRules[k].type = fields[i].validationRules[l].type
        => k = l

\* The required switch is turned on after the editor added two other rules
C27_Witness ==
  /\ lastOp.name = "handleRequiredToggle"
  /\ phase = "idle"
  /\ \E i \in 1..Len(fields) :
       /\ fields[i].required
       /\ Len(fields[i].validationRules) = 3
       /\ fields[i].validationRules[1].type = "notEmpty"

\* ------------------------------------------------------------------ C25
HasRuleOfType(field, ruleType) ==
  \E k \in 1..Len(field.validationRules) :
    field.validationRules[k].type = ruleType

\* C25: rule clean-up agrees with the availability table: a step of the
\* clean-up effect, or a change of the field's type, never removes a rule
\* whose type the table allows for the type the field has after the step.
C25_CleanupKeepsAllowedRules ==
  [][ (phase = "effects"
         \/ (phase' = "effects" /\ lastOp'.name = "handleFieldTypeChange"))
      => \A i \in 1..Len(fields) : \A j \in 1..Len(fields') :
           fields[i].id = fields'[j].id
             => \A ruleType \in Range(getAvailableValidationRules(fields'[j].type)) :
                  HasRuleOfType(fields[i], ruleType)
                    => HasRuleOfType(fields'[j], ruleType) ]_vars

\* ------------------------------------------------------------------ C24
\* C24: from a new empty form, switching a number field to derived is not
\* undone by the clean-up pass before a parent can be chosen: no step of the
\* commit that follows the switch takes the derived flag from the field.
C24_ToggleOnSurvivesPass ==
  [][ (/\ phase = "effects"
       /\ lastOp.name = "handleDerivedToggle"
       /\ FieldById(fields, lastOp.id).isDerived)
      => FieldById(fields', lastOp.id).isDerived ]_vars

\* What the claim needs to be reachable: a settled derived field with parents
C24_DerivedFieldSettled ==
  /\ phase = "idle"
  /\ \E i \in 1..Len(fields) :
       /\ fields[i].isDerived
       /\ IsDefined(fields[i].derivedConfig)
       /\ Len(Get(fields[i].derivedConfig).parentFieldIds) > 0

\* In the model no behaviour from a new form reaches it
C24_NeverSettled == ~C24_DerivedFieldSettled

\* ------------------------------------------------------------------ C26
\* C26: from any schema state the consistency pass terminates: a commit that
\* has started comes to rest after finitely many passes.
C26_PassTerminates ==
  (phase = "effects") ~> (phase = "idle")

\* Three passes ran after one deletion: two dispatched nothing new after the
\* one that pruned or demoted, and the page is at rest
C26_Witness ==
  /\ phase = "idle"
  /\ lastOp.name = "handleDeleteField"
  /\ Len(passes) >= 2
  /\ passes[1] # {}

\* ------------------------------------------------------------------ C28
\* The list without the field of the given id
Without(flds, id) ==
  FilterIdx(flds, { i \in 1..Len(flds) : flds[i].id # id }, 1)

\* C28: a drag-and-drop reorder yields a permutation: the list holds the same
\* fields, each once, and the fields other than the dragged one keep their
\* relative order.
C28_ReorderIsPermutation ==
  [][ (phase = "idle" /\ phase' = "effects" /\ lastOp'.name = "handleDrop")
      => /\ Len(fields') = Len(fields)
         /\ \A i \in 1..Len(fields) :
              Cardinality({ j \in 1..Len(fields') : fields'[j] = fields[i] }) = 1
         /\ Without(fields', lastOp'.id) = Without(fields, lastOp'.id) ]_vars

\* The first of three cards was dropped on the third: it now stands second
C28_Witness ==
  /\ lastOp.name = "handleDrop"
  /\ phase = "effects"
  /\ Len(fields) = 3
  /\ fields[1].id = 2
  /\ fields[2].id = 1
  /\ fields[3].id = 3
  /\ lastOp.id = 1

\* ------------------------------------------------------------------ C22
\* C22: a structural mutation (add, delete, type change) is atomic with its
\* consistency pass: every schema a consumer observes after such a mutation
\* is one the pass has nothing left to do on.  Each state of the model is a
\* schema the create page has rendered: the pass is an effect of that render.
C22_MutationAtomicWithPass ==
  lastOp.name \in { "handleAddField", "handleDeleteField", "handleFieldTypeChange" }
    => FieldsToUpdate(fields) = {}

\* ------------------------------------------------------------------ C29
\* C29: the completion of a save, one second after its start, discards only
\* the saved form: a form that became current after the page that started
\* the save was left is still current after the completion; and no save is
\* started while the timer of another is pending.
C29_CompletionClearsOnlySavedForm ==
  [][ /\ (saveTimer /\ ~saveTimer' /\ ~isLoading /\ IsDefined(currentForm))
           => currentForm' = currentForm
      /\ (saveTimer /\ ~isLoading) => ~isLoading' ]_vars

\* ------------------------------------------------------------------ C30
\* C30: a saved form that was deleted on My Forms is never the current form
\* again, on any route, and no form is current while My Forms is shown.
C30_DeletedFormNeverCurrent ==
  /\ IsDefined(currentForm) => Get(currentForm).id \notin deleted
  /\ route = "myforms" => ~IsDefined(currentForm)

\* The preview of a deleted form was asked for by its id and was not found
C30_Witness ==
  /\ route = "preview"
  /\ IsDefined(searchParams)
  /\ Get(searchParams) \in deleted
  /\ formNotFound
  /\ ~IsDefined(currentForm)

\* ------------------------------------------------------------------ C21
\* The stored text is there and is not the text of a list of forms
Malformed ==
  \/ storageKind \in { "unparseable", "object", "null" }
  \/ storageKind = "array" /\ \E i \in 1..Len(storage) : ~IsSchema(storage[i])

\* C21: loading a form by its id from malformed stored content yields
\* "form not found" and no current form: nothing is raised, and the malformed
\* value is not installed as the current form.
C21_MalformedStorageIsAbsent ==
  (route = "preview" /\ IsDefined(searchParams) /\ Malformed)
    => /\ ~raised
       /\ formNotFound
       /\ ~IsDefined(currentForm)

====
